---- MODULE Spec2Model ----
(***************************************************************************)
(* Quick Markdown Note (raycast-quicksave-md): the Save Note command, the  *)
(* note forms, the useContentResolver hook and the noteSaver utilities.    *)
(* Text is a sequence of one-character strings.                            *)
(***************************************************************************)
EXTENDS Integers, Sequences, FiniteSets, TLC

\* ------------------------------------------------------------------ bounds
\* seconds the wall clock may advance during a behaviour
MaxClock == 1
\* invocations (command launches, form submits, hook calls) per behaviour
MaxRuns == 2

\* ------------------------------------------------------- JavaScript values
\* `undefined`, and the rejection of a host promise, as values no text equals
Undefined == <<"undefined">>
Throws == <<"throws">>

IsText(v) == v # Undefined /\ v # Throws

\* JS truthiness of string | undefined: "" and undefined are falsy
Truthy(v) == v # Undefined /\ v # <<>>

\* the characters String.prototype.trim removes
IsWhitespace(c) == c \in {" ", "\n", "\t"}

RECURSIVE TrimStart(_)
TrimStart(s) ==
  IF s = <<>> THEN <<>>
  ELSE IF IsWhitespace(Head(s)) THEN TrimStart(Tail(s)) ELSE s

RECURSIVE TrimEnd(_)
TrimEnd(s) ==
  IF s = <<>> THEN <<>>
  ELSE IF IsWhitespace(s[Len(s)]) THEN TrimEnd(SubSeq(s, 1, Len(s) - 1)) ELSE s

Trim(s) == TrimEnd(TrimStart(s))

\* s.startsWith(p)
StartsWith(s, p) == Len(p) <= Len(s) /\ SubSeq(s, 1, Len(p)) = p

\* s.replace(new RegExp(pat, "g"), rep) for a pattern of plain letters:
\* left to right, non-overlapping
RECURSIVE ReplaceAll(_, _, _)
ReplaceAll(s, pat, rep) ==
  IF s = <<>> THEN <<>>
  ELSE IF StartsWith(s, pat)
       THEN rep \o ReplaceAll(SubSeq(s, Len(pat) + 1, Len(s)), pat, rep)
       ELSE <<Head(s)>> \o ReplaceAll(Tail(s), pat, rep)

\* s.split(sep) for a one-character separator: a sequence of texts
RECURSIVE Split(_, _)
Split(s, sep) ==
  IF \A i \in 1..Len(s) : s[i] # sep THEN <<s>>
  ELSE LET i == CHOOSE k \in 1..Len(s) :
                  s[k] = sep /\ \A j \in 1..(k - 1) : s[j] # sep
       IN <<SubSeq(s, 1, i - 1)>> \o Split(SubSeq(s, i + 1, Len(s)), sep)

\* parts.join(sep)
RECURSIVE Join(_, _)
Join(parts, sep) ==
  IF parts = <<>> THEN <<>>
  ELSE IF Len(parts) = 1 THEN parts[1]
  ELSE parts[1] \o sep \o Join(Tail(parts), sep)

DigitChar == <<"0", "1", "2", "3", "4", "5", "6", "7", "8", "9">>

\* String(n) for n >= 0
RECURSIVE Str(_)
Str(n) == IF n < 10 THEN <<DigitChar[n + 1]>>
          ELSE Str(n \div 10) \o <<DigitChar[(n % 10) + 1]>>

\* s.padStart(2, "0")
\* mutant: no zero padding
PadStart2_None(s) == s

PadStart2(s) == IF Len(s) < 2 THEN <<"0">> \o s ELSE s

\* s.slice(-2)
SliceLast2(s) == IF Len(s) <= 2 THEN s ELSE SubSeq(s, Len(s) - 1, Len(s))

\* mutant: no truncation
Substring0_Whole(s, n) == s

\* s.substring(0, n)
Substring0(s, n) == IF Len(s) <= n THEN s ELSE SubSeq(s, 1, n)

\* ---------------------------------------------------------------- the clock
\* new Date() when the wall clock reads t seconds past the behaviour's start,
\* which is one second before midnight on 2024-12-31; month is 0-based as
\* Date.getMonth() gives it
SecondsPerDay == 24 * 3600
StartSecondOfDay == SecondsPerDay - 1

DateAt(t) ==
  LET total == StartSecondOfDay + t
      nextDay == total >= SecondsPerDay
      sod == IF nextDay THEN total - SecondsPerDay ELSE total
  IN [year |-> IF nextDay THEN 2025 ELSE 2024,
      month |-> IF nextDay THEN 0 ELSE 11,
      date |-> IF nextDay THEN 1 ELSE 31,
      hours |-> sod \div 3600,
      minutes |-> (sod % 3600) \div 60,
      seconds |-> sod % 60]

NoDate == [year |-> 0, month |-> 0, date |-> 0, hours |-> 0, minutes |-> 0, seconds |-> 0]

\* ------------------------------------------------------ filename formatting
\* mutant: the A and a entries of formatMap written before the others of
\* their length
FormatKeys_MeridiemFirst ==
  << <<"Y", "Y", "Y", "Y">>, <<"Y", "Y">>, <<"A">>, <<"a">>, <<"M", "M">>, <<"M">>,
     <<"D", "D">>, <<"D">>, <<"H", "H">>, <<"H">>, <<"h", "h">>, <<"h">>,
     <<"m", "m">>, <<"m">>, <<"s", "s">>, <<"s">> >>

\* the keys of formatMap, in insertion order
FormatKeys ==
  << <<"Y", "Y", "Y", "Y">>, <<"Y", "Y">>, <<"M", "M">>, <<"M">>, <<"D", "D">>, <<"D">>,
     <<"H", "H">>, <<"H">>, <<"h", "h">>, <<"h">>, <<"m", "m">>, <<"m">>,
     <<"s", "s">>, <<"s">>, <<"A">>, <<"a">> >>

\* mutant: the hour modulo 12, without the "|| 12"
Hour12_NoTwelve(now) == now.hours % 12

\* now.getHours() % 12 || 12
Hour12(now) == IF now.hours % 12 = 0 THEN 12 ELSE now.hours % 12

\* formatMap[token]
formatMap(now, token) ==
  CASE token = <<"Y", "Y", "Y", "Y">> -> Str(now.year)
    [] token = <<"Y", "Y">> -> SliceLast2(Str(now.year))
    [] token = <<"M", "M">> -> PadStart2(Str(now.month + 1))
    [] token = <<"M">> -> Str(now.month + 1)
    [] token = <<"D", "D">> -> PadStart2(Str(now.date))
    [] token = <<"D">> -> Str(now.date)
    [] token = <<"H", "H">> -> PadStart2(Str(now.hours))
    [] token = <<"H">> -> Str(now.hours)
    [] token = <<"h", "h">> -> PadStart2(Str(Hour12(now)))
    [] token = <<"h">> -> Str(Hour12(now))
    [] token = <<"m", "m">> -> PadStart2(Str(now.minutes))
    [] token = <<"m">> -> Str(now.minutes)
    [] token = <<"s", "s">> -> PadStart2(Str(now.seconds))
    [] token = <<"s">> -> Str(now.seconds)
    [] token = <<"A">> -> IF now.hours >= 12 THEN <<"P", "M">> ELSE <<"A", "M">>
    [] token = <<"a">> -> IF now.hours >= 12 THEN <<"p", "m">> ELSE <<"a", "m">>

\* mutant: the keys sorted shortest first
RECURSIVE SortByLengthAsc(_, _)
SortByLengthAsc(keys, n) ==
  IF n = 0 THEN <<>>
  ELSE SortByLengthAsc(keys, n - 1) \o SelectSeq(keys, LAMBDA k : Len(k) = n)

\* keys.sort((a, b) => b.length - a.length): stable, longest first
RECURSIVE SortByLengthDesc(_, _)
SortByLengthDesc(keys, n) ==
  IF n = 0 THEN <<>>
  ELSE SelectSeq(keys, LAMBDA k : Len(k) = n) \o SortByLengthDesc(keys, n - 1)

LongestKey == CHOOSE n \in 1..8 :
                /\ \E i \in 1..Len(FormatKeys) : Len(FormatKeys[i]) = n
                /\ \A i \in 1..Len(FormatKeys) : Len(FormatKeys[i]) <= n

tokens == SortByLengthDesc(FormatKeys, LongestKey)

\* for (const token of tokens) filename = filename.replace(RegExp(token, "g"), ...)
RECURSIVE ReplaceTokens(_, _, _)
ReplaceTokens(filename, toks, now) ==
  IF toks = <<>> THEN filename
  ELSE ReplaceTokens(ReplaceAll(filename, Head(toks), formatMap(now, Head(toks))),
                     Tail(toks), now)

DefaultFormat ==
  <<"Y", "Y", "Y", "Y", "-", "M", "M", "-", "D", "D", "-", "H", "H", "m", "m", "-", "s", "s">>

MdExtension == <<".", "m", "d">>

\* generateFilename(format), with the Date it constructs passed in
generateFilename(format, now) ==
  LET template == IF Truthy(format) THEN format ELSE DefaultFormat
  IN ReplaceTokens(template, tokens, now) \o MdExtension

\* ------------------------------------------------------- content formatting
TitleLimit == 100

Delimiter == <<"-", "-", "-">>
Newline == <<"\n">>

\* `${year}-${month}-${day} ${hours}:${minutes}`
dateString(now) ==
  Str(now.year) \o <<"-">> \o PadStart2(Str(now.month + 1)) \o <<"-">>
    \o PadStart2(Str(now.date)) \o <<" ">> \o PadStart2(Str(now.hours)) \o <<":">>
    \o PadStart2(Str(now.minutes))

\* firstLine.replace(/^#+\s*/, "")
RECURSIVE DropWhile(_, _)
DropWhile(s, chars) ==
  IF s # <<>> /\ Head(s) \in chars THEN DropWhile(Tail(s), chars) ELSE s

StripHeading(s) ==
  IF s # <<>> /\ Head(s) = "#"
  THEN DropWhile(DropWhile(s, {"#"}), {" ", "\n", "\t"})
  ELSE s

\* content.split("\n")[0].trim(), heading markers removed, substring(0, 100)
titleOf(content) == Substring0(StripHeading(Trim(Split(content, "\n")[1])), TitleLimit)

\* mutant: the pieces are not trimmed
MapTrim_Untrimmed(parts) == parts

RECURSIVE MapTrim(_)
MapTrim(parts) == IF parts = <<>> THEN <<>> ELSE <<Trim(Head(parts))>> \o MapTrim(Tail(parts))

\* defaultTags.split(",").map(trim).filter(t => t), or [] when unset or empty
tagsOf(defaultTags) ==
  IF Truthy(defaultTags)
  THEN SelectSeq(MapTrim(Split(defaultTags, ",")), LAMBDA t : t # <<>>)
  ELSE <<>>

LineIf(cond, line) == IF cond THEN <<line>> ELSE <<>>

\* mutant: the type line pushed before the date line
frontmatterLines_TypeFirst(content, prefs, now) ==
  LineIf(prefs.frontmatterIncludeType,
              <<"t", "y", "p", "e", ":", " ", "q", "u", "i", "c", "k", "-", "n", "o", "t", "e">>)
    \o LineIf(prefs.frontmatterIncludeDate, <<"d", "a", "t", "e", ":", " ">> \o dateString(now))
    \o LineIf(prefs.frontmatterIncludeTitle,
              <<"t", "i", "t", "l", "e", ":", " ", "\"">> \o titleOf(content) \o <<"\"">>)
    \o LineIf(prefs.frontmatterIncludeTags,
              <<"t", "a", "g", "s", ":", " ", "[">>
                \o Join(tagsOf(prefs.frontmatterDefaultTags), <<",", " ">>) \o <<"]">>)
    \o LineIf(prefs.frontmatterIncludeAuthor,
              <<"a", "u", "t", "h", "o", "r", ":", " ", "\"">>
                \o (IF Truthy(prefs.frontmatterDefaultAuthor)
                    THEN prefs.frontmatterDefaultAuthor ELSE <<>>)
                \o <<"\"">>)
    \o LineIf(prefs.frontmatterIncludeSource,
              <<"s", "o", "u", "r", "c", "e", ":", " ", "\"", "\"">>)

\* frontmatterLines, in push order
frontmatterLines(content, prefs, now) ==
  LineIf(prefs.frontmatterIncludeDate, <<"d", "a", "t", "e", ":", " ">> \o dateString(now))
    \o LineIf(prefs.frontmatterIncludeType,
              <<"t", "y", "p", "e", ":", " ", "q", "u", "i", "c", "k", "-", "n", "o", "t", "e">>)
    \o LineIf(prefs.frontmatterIncludeTitle,
              <<"t", "i", "t", "l", "e", ":", " ", "\"">> \o titleOf(content) \o <<"\"">>)
    \o LineIf(prefs.frontmatterIncludeTags,
              <<"t", "a", "g", "s", ":", " ", "[">>
                \o Join(tagsOf(prefs.frontmatterDefaultTags), <<",", " ">>) \o <<"]">>)
    \o LineIf(prefs.frontmatterIncludeAuthor,
              <<"a", "u", "t", "h", "o", "r", ":", " ", "\"">>
                \o (IF Truthy(prefs.frontmatterDefaultAuthor)
                    THEN prefs.frontmatterDefaultAuthor ELSE <<>>)
                \o <<"\"">>)
    \o LineIf(prefs.frontmatterIncludeSource,
              <<"s", "o", "u", "r", "c", "e", ":", " ", "\"", "\"">>)

\* mutant: the block is emitted even when it has no field line
formatContent_EmptyBlock(content, prefs, now) ==
  IF prefs.enableFrontmatter
  THEN Delimiter \o Newline \o Join(frontmatterLines(content, prefs, now), Newline) \o Newline
         \o Delimiter \o Newline \o Newline \o content
  ELSE content

\* formatContent(content, prefs), with the Date it constructs passed in
formatContent(content, prefs, now) ==
  LET lines == frontmatterLines(content, prefs, now)
  IN IF prefs.enableFrontmatter /\ Len(lines) > 0
     THEN Delimiter \o Newline \o Join(lines, Newline) \o Newline
            \o Delimiter \o Newline \o Newline \o content
     ELSE content


\* ------------------------------------------------------------------- state
VARIABLES
  dirState,     \* what prefs.notesDirectory is on disk
  files,        \* the files written, one per path relative to the notes directory
                \* as path.join(notesDir, filename) resolves it: [name, doc],
                \* with the content and the Dates the document was made from
  selection,    \* what getSelectedText() yields: a text, or Throws
  clipboard,    \* what Clipboard.readText() yields: a text, Undefined, or Throws
  clock,        \* seconds the wall clock has advanced
  prefs,        \* getPreferenceValues()
  runs,         \* invocations started so far
  cmd,          \* which entry point the current invocation runs
  pc,           \* where the current invocation stands
  argument,     \* props.arguments.content, or resolveContent's initialContent
  noteContent,  \* Command's noteContent
  content,      \* the content handleSubmit was given
  now,          \* the Date the filename is generated from
  docNow,       \* the Date the frontmatter date field is generated from
  filename,     \* the generated file name
  finalOutput,  \* the document handed to writeFile
  isSubmitting, \* NoteForm's isSubmitting state
  isLoading,    \* useContentResolver's isLoading state
  resolved,     \* what resolveContent returned
  error,        \* the message of the error being handled
  reports,      \* the showToast / showHUD calls of the current invocation
  rejected,     \* the invocation's promise was rejected
  selReads,     \* getSelectedText() calls of the current invocation
  clipReads,    \* Clipboard.readText() calls of the current invocation
  mkdirCalls,   \* mkdir() calls of the current invocation
  writeCalls,   \* writeFile() calls of the current invocation
  writesDone,   \* writeFile() calls of the current invocation that resolved
  dirAtWrite,   \* dirState when writeFile() was called
  dirAtLaunch,  \* dirState when the invocation started
  filesAtLaunch, \* files when the invocation started
  invocations,  \* Save Note invocations running side by side: each one's locals
  completed,    \* those whose writeFile() resolved, in the order it resolved
  form          \* the mounted Detail NoteForm: its props, its state, its effect
                \* and its handleSubmit calls

env == <<dirState, files, selection, clipboard, clock, prefs>>
locals == <<argument, noteContent, content, now, docNow, filename, finalOutput,
            isSubmitting, isLoading, resolved, error>>
observed == <<reports, rejected, selReads, clipReads, mkdirCalls, writeCalls,
              writesDone, dirAtWrite, dirAtLaunch, filesAtLaunch>>
vars == <<env, runs, cmd, pc, locals, observed>>
concurrent == <<invocations, completed, form>>

\* no NoteForm is mounted
NoForm == [initializeContent |-> "unmounted"]

\* null, as resolveContent returns it
Null == <<"null">>
NoText == <<"none">>

\* the notes directory on disk:
\*   writable    a directory the process may write to
\*   readonly    a directory without write permission
\*   file        a writable regular file stands at the path
\*   absent      nothing at the path; the parent exists and is writable
\*   absentDeep  nothing at the path nor at its parent; an ancestor is writable
\*   blocked     nothing at the path, and no ancestor allows creating it
DirStates == {"writable", "readonly", "file", "absent", "absentDeep", "blocked"}

\* access(notesDir, constants.W_OK) resolves
accessOk(d) == d \in {"writable", "file"}

\* mutant: mkdir without { recursive: true } semantics for missing parents
mkdirOk_ParentsRequired(d) == d \in {"writable", "readonly", "absent"}

\* mkdir(notesDir, { recursive: true }) resolves: it creates missing parents,
\* and resolves without doing anything when the directory already exists
mkdirOk(d) == d \in {"writable", "readonly", "absent", "absentDeep"}

\* the directory after mkdir resolved
afterMkdir(d) == IF d \in {"absent", "absentDeep"} THEN "writable" ELSE d

\* writeFile(path.join(notesDir, filename), ...) may resolve: only inside a
\* writable directory, and even there it may fail (disk full, I/O error)
writeOutcomes(d) == IF d = "writable" THEN {TRUE, FALSE} ELSE {FALSE}

ArgumentValues == {Undefined, <<>>, <<" ">>, <<"a">>, <<" ", "a", " ">>}
SelectionValues == {Throws, <<>>, <<" ">>, <<"s">>}
ClipboardValues == {Throws, Undefined, <<>>, <<" ">>, <<"c">>}
FormValues == {Undefined, <<>>, <<" ", "\n">>, <<"f">>, <<" ", "f">>}

BasePrefs ==
  [filenameFormat |-> DefaultFormat,
   enableFrontmatter |-> TRUE,
   frontmatterIncludeDate |-> TRUE,
   frontmatterIncludeType |-> TRUE,
   frontmatterIncludeTitle |-> FALSE,
   frontmatterIncludeTags |-> FALSE,
   frontmatterDefaultTags |-> <<>>,
   frontmatterIncludeAuthor |-> FALSE,
   frontmatterDefaultAuthor |-> <<>>,
   frontmatterIncludeSource |-> FALSE]

\* the daily-note file name format, YYYY-MM-DD
DailyFormat == <<"Y", "Y", "Y", "Y", "-", "M", "M", "-", "D", "D">>

\* a file name format with a path separator in it, ../YYYY
ParentFormat == <<".", ".", "/", "Y", "Y", "Y", "Y">>

\* the manifest defaults, a daily-note setup without frontmatter, and a
\* format that names a path
PrefsValues ==
  {BasePrefs,
   [BasePrefs EXCEPT !.filenameFormat = DailyFormat,
                     !.enableFrontmatter = FALSE],
   [BasePrefs EXCEPT !.filenameFormat = ParentFormat,
                     !.enableFrontmatter = FALSE]}

Init ==
  /\ dirState \in DirStates
  /\ files = {}
  /\ selection \in SelectionValues
  /\ clipboard \in ClipboardValues
  /\ clock = 0
  /\ prefs \in PrefsValues
  /\ runs = 0
  /\ cmd = "none"
  /\ pc = "idle"
  /\ argument = Undefined
  /\ noteContent = Undefined
  /\ content = Undefined
  /\ now = NoDate
  /\ docNow = NoDate
  /\ filename = NoText
  /\ finalOutput = NoText
  /\ isSubmitting = FALSE
  /\ isLoading = FALSE
  /\ resolved = NoText
  /\ error = "none"
  /\ reports = <<>>
  /\ rejected = FALSE
  /\ selReads = 0
  /\ clipReads = 0
  /\ mkdirCalls = 0
  /\ writeCalls = 0
  /\ writesDone = 0
  /\ dirAtWrite = "none"
  /\ dirAtLaunch = dirState
  /\ filesAtLaunch = {}
  /\ invocations = <<>>
  /\ completed = <<>>
  /\ form = NoForm

\* the wall clock advances, at any point of an invocation
Tick ==
  /\ clock < MaxClock
  /\ clock' = clock + 1
  /\ UNCHANGED <<dirState, files, selection, clipboard, prefs, runs, cmd, pc, locals, observed>>
  /\ UNCHANGED concurrent

\* a new invocation starts from fresh locals
Fresh(kind) ==
  /\ pc \in {"idle", "done"}
  /\ runs < MaxRuns
  /\ runs' = runs + 1
  /\ cmd' = kind
  /\ now' = NoDate
  /\ docNow' = NoDate
  /\ filename' = NoText
  /\ finalOutput' = NoText
  /\ error' = "none"
  /\ reports' = <<>>
  /\ rejected' = FALSE
  /\ selReads' = 0
  /\ clipReads' = 0
  /\ mkdirCalls' = 0
  /\ writeCalls' = 0
  /\ writesDone' = 0
  /\ dirAtWrite' = "none"
  /\ dirAtLaunch' = dirState
  /\ filesAtLaunch' = files
  /\ UNCHANGED env
  /\ UNCHANGED concurrent

\* a showToast / showHUD call: it returns, or it throws
Report(kind, detail, threw) ==
  reports' = Append(reports, [kind |-> kind, detail |-> detail, threw |-> threw])

\* mutant: the write appends to a file that already exists
fileWritten_Appends(fs, file) ==
  {f \in fs : f.name # file.name}
    \cup {[file EXCEPT !.doc = old.doc \o file.doc] : old \in {f \in fs : f.name = file.name}}
    \cup {g \in {file} : \A f \in fs : f.name # file.name}

\* mutant: the write replaces the directory's content instead of one file
fileWritten_DropsOthers(fs, file) == {file}

\* writeFile(filePath, doc, "utf-8") resolved: the file is created or replaced
fileWritten(fs, file) == {f \in fs : f.name # file.name} \cup {file}

\* --------------------------------------------- Save Note command (no-view)
\* mutant: the no-content check without the trim
hasContent_NoTrim(nc) == Truthy(nc)

\* if (!noteContent || noteContent.trim().length === 0): the negation
hasContent(nc) == Truthy(nc) /\ Len(Trim(nc)) # 0

\* Command, from the end of content resolution to the writeFile call: the
\* no-content check, then one Date for the file name and the frontmatter
CommandFormat(nc) ==
  /\ pc' = IF hasContent(nc) THEN "write" ELSE "toastNoContent"
  /\ now' = IF hasContent(nc) THEN DateAt(clock) ELSE now
  /\ docNow' = IF hasContent(nc) THEN DateAt(clock) ELSE docNow
  /\ filename' = IF hasContent(nc)
                 THEN generateFilename(prefs.filenameFormat, DateAt(clock)) ELSE filename
  /\ finalOutput' = IF hasContent(nc)
                    THEN formatContent(nc, prefs, DateAt(clock)) ELSE finalOutput

\* mutant: the selection is read even when an argument was given
CommandResolve_IgnoresArgument ==
  /\ noteContent' = argument
  /\ pc' = "selection"
  /\ UNCHANGED <<now, docNow, filename, finalOutput>>

\* Command, after the directory gate: noteContent = props.arguments.content,
\* and on to the first source that !noteContent asks for
CommandResolve ==
  /\ noteContent' = argument
  /\ IF ~Truthy(argument)
     THEN /\ pc' = "selection"
          /\ UNCHANGED <<now, docNow, filename, finalOutput>>
     ELSE CommandFormat(argument)

\* mutant: content resolution starts before the directory is checked
LaunchSaveNote_ResolvesFirst ==
  /\ Fresh("saveNote")
  /\ \E a \in ArgumentValues : argument' = a
  /\ pc' = "selection"
  /\ noteContent' = Undefined
  /\ content' = Undefined
  /\ resolved' = NoText
  /\ isSubmitting' = FALSE
  /\ isLoading' = FALSE

\* the user runs Save Note with an argument; Command awaits access()
LaunchSaveNote ==
  /\ Fresh("saveNote")
  /\ \E a \in ArgumentValues : argument' = a
  /\ pc' = "access"
  /\ noteContent' = Undefined
  /\ content' = Undefined
  /\ resolved' = NoText
  /\ isSubmitting' = FALSE
  /\ isLoading' = FALSE

\* await access(notesDir, constants.W_OK)
CommandAccess ==
  /\ cmd = "saveNote" /\ pc = "access"
  /\ IF accessOk(dirState)
     THEN CommandResolve
     ELSE /\ pc' = "mkdir"
          /\ UNCHANGED <<noteContent, now, docNow, filename, finalOutput>>
  /\ UNCHANGED <<env, runs, cmd, argument, content, isSubmitting, isLoading, resolved,
                 error, observed>>
  /\ UNCHANGED concurrent

\* mutant: a failed mkdir is swallowed and the command goes on
CommandMkdir_IgnoresFailure ==
  /\ cmd = "saveNote" /\ pc = "mkdir"
  /\ mkdirCalls' = mkdirCalls + 1
  /\ dirState' = IF mkdirOk(dirState) THEN afterMkdir(dirState) ELSE dirState
  /\ CommandResolve
  /\ UNCHANGED <<files, selection, clipboard, clock, prefs, runs, cmd, argument, content,
                 isSubmitting, isLoading, resolved, error, reports, rejected, selReads,
                 clipReads, writeCalls, writesDone, dirAtWrite, dirAtLaunch, filesAtLaunch>>
  /\ UNCHANGED concurrent

\* await mkdir(notesDir, { recursive: true })
CommandMkdir ==
  /\ cmd = "saveNote" /\ pc = "mkdir"
  /\ mkdirCalls' = mkdirCalls + 1
  /\ IF mkdirOk(dirState)
     THEN /\ dirState' = afterMkdir(dirState)
          /\ CommandResolve
     ELSE /\ pc' = "toastDirectory"
          /\ UNCHANGED <<dirState, noteContent, now, docNow, filename, finalOutput>>
  /\ UNCHANGED <<files, selection, clipboard, clock, prefs, runs, cmd, argument, content,
                 isSubmitting, isLoading, resolved, error, reports, rejected, selReads,
                 clipReads, writeCalls, writesDone, dirAtWrite, dirAtLaunch, filesAtLaunch>>
  /\ UNCHANGED concurrent

\* await showToast("Invalid directory"); return
CommandToastDirectory ==
  /\ cmd = "saveNote" /\ pc = "toastDirectory"
  /\ \E threw \in BOOLEAN :
       /\ Report("Invalid directory", "none", threw)
       /\ pc' = IF threw THEN "toastError" ELSE "done"
       /\ error' = IF threw THEN "toast" ELSE error
  /\ UNCHANGED <<env, runs, cmd, argument, noteContent, content, now, docNow, filename,
                 finalOutput, isSubmitting, isLoading, resolved, rejected, selReads,
                 clipReads, mkdirCalls, writeCalls, writesDone, dirAtWrite, dirAtLaunch, filesAtLaunch>>
  /\ UNCHANGED concurrent

\* mutant: a throw of getSelectedText() reaches the catch-all
CommandSelection_Surfaces ==
  /\ cmd = "saveNote" /\ pc = "selection"
  /\ selReads' = selReads + 1
  /\ IF selection = Throws
     THEN /\ pc' = "toastError"
          /\ error' = "selection"
          /\ UNCHANGED <<noteContent, now, docNow, filename, finalOutput>>
     ELSE /\ noteContent' = selection
          /\ error' = error
          /\ IF ~Truthy(selection)
             THEN /\ pc' = "clipboard"
                  /\ UNCHANGED <<now, docNow, filename, finalOutput>>
             ELSE CommandFormat(selection)
  /\ UNCHANGED <<env, runs, cmd, argument, content, isSubmitting, isLoading, resolved,
                 reports, rejected, clipReads, mkdirCalls, writeCalls, writesDone, dirAtWrite,
                 dirAtLaunch, filesAtLaunch>>
  /\ UNCHANGED concurrent

\* noteContent = await getSelectedText(), a throw swallowed
CommandSelection ==
  /\ cmd = "saveNote" /\ pc = "selection"
  /\ selReads' = selReads + 1
  /\ LET nc == IF selection = Throws THEN noteContent ELSE selection
     IN /\ noteContent' = nc
        /\ IF ~Truthy(nc)
           THEN /\ pc' = "clipboard"
                /\ UNCHANGED <<now, docNow, filename, finalOutput>>
           ELSE CommandFormat(nc)
  /\ UNCHANGED <<env, runs, cmd, argument, content, isSubmitting, isLoading, resolved,
                 error, reports, rejected, clipReads, mkdirCalls, writeCalls, writesDone, dirAtWrite,
                 dirAtLaunch, filesAtLaunch>>
  /\ UNCHANGED concurrent

\* noteContent = await Clipboard.readText(), a throw swallowed
CommandClipboard ==
  /\ cmd = "saveNote" /\ pc = "clipboard"
  /\ clipReads' = clipReads + 1
  /\ LET nc == IF clipboard = Throws THEN noteContent ELSE clipboard
     IN /\ noteContent' = nc
        /\ CommandFormat(nc)
  /\ UNCHANGED <<env, runs, cmd, argument, content, isSubmitting, isLoading, resolved,
                 error, reports, rejected, selReads, mkdirCalls, writeCalls, writesDone, dirAtWrite,
                 dirAtLaunch, filesAtLaunch>>
  /\ UNCHANGED concurrent

\* mutant: the return after the 'No content to save' toast is missing
CommandToastNoContent_FallsThrough ==
  /\ cmd = "saveNote" /\ pc = "toastNoContent"
  /\ \E threw \in BOOLEAN :
       /\ Report("No content to save", "none", threw)
       /\ pc' = IF threw THEN "toastError" ELSE "write"
       /\ error' = IF threw THEN "toast" ELSE error
  /\ UNCHANGED <<env, runs, cmd, argument, noteContent, content, now, docNow, filename,
                 finalOutput, isSubmitting, isLoading, resolved, rejected, selReads,
                 clipReads, mkdirCalls, writeCalls, writesDone, dirAtWrite, dirAtLaunch,
                 filesAtLaunch>>
  /\ UNCHANGED concurrent

\* await showToast("No content to save"); return
CommandToastNoContent ==
  /\ cmd = "saveNote" /\ pc = "toastNoContent"
  /\ \E threw \in BOOLEAN :
       /\ Report("No content to save", "none", threw)
       /\ pc' = IF threw THEN "toastError" ELSE "done"
       /\ error' = IF threw THEN "toast" ELSE error
  /\ UNCHANGED <<env, runs, cmd, argument, noteContent, content, now, docNow, filename,
                 finalOutput, isSubmitting, isLoading, resolved, rejected, selReads,
                 clipReads, mkdirCalls, writeCalls, writesDone, dirAtWrite, dirAtLaunch, filesAtLaunch>>
  /\ UNCHANGED concurrent

\* await writeFile(filePath, finalOutput, "utf-8")
CommandWrite ==
  /\ cmd = "saveNote" /\ pc = "write"
  /\ writeCalls' = writeCalls + 1
  /\ dirAtWrite' = dirState
  /\ \E ok \in writeOutcomes(dirState) :
       IF ok
       THEN /\ files' = fileWritten(files,
                 [name |-> filename, doc |-> finalOutput, body |-> noteContent,
                  fileDate |-> now, docDate |-> docNow, via |-> cmd])
            /\ writesDone' = writesDone + 1
            /\ pc' = "hud"
            /\ error' = error
       ELSE /\ pc' = "toastFailed"
            /\ error' = "write"
            /\ files' = files
            /\ writesDone' = writesDone
  /\ UNCHANGED <<dirState, selection, clipboard, clock, prefs, runs, cmd, argument,
                 noteContent, content, now, docNow, filename, finalOutput, isSubmitting,
                 isLoading, resolved, reports, rejected, selReads, clipReads, mkdirCalls,
                 dirAtLaunch, filesAtLaunch>>
  /\ UNCHANGED concurrent

\* await showHUD(`Note Saved: ${filename}`), inside the try that guards writeFile
CommandHud ==
  /\ cmd = "saveNote" /\ pc = "hud"
  /\ \E threw \in BOOLEAN :
       /\ Report("Note Saved", filename, threw)
       /\ pc' = IF threw THEN "toastFailed" ELSE "done"
       /\ error' = IF threw THEN "hud" ELSE error
  /\ UNCHANGED <<env, runs, cmd, argument, noteContent, content, now, docNow, filename,
                 finalOutput, isSubmitting, isLoading, resolved, rejected, selReads,
                 clipReads, mkdirCalls, writeCalls, writesDone, dirAtWrite, dirAtLaunch, filesAtLaunch>>
  /\ UNCHANGED concurrent

\* catch (error) { await showToast("Failed to save note", error.message) }
CommandToastFailed ==
  /\ cmd = "saveNote" /\ pc = "toastFailed"
  /\ \E threw \in BOOLEAN :
       /\ Report("Failed to save note", error, threw)
       /\ pc' = IF threw THEN "toastError" ELSE "done"
       /\ error' = IF threw THEN "toast" ELSE error
  /\ UNCHANGED <<env, runs, cmd, argument, noteContent, content, now, docNow, filename,
                 finalOutput, isSubmitting, isLoading, resolved, rejected, selReads,
                 clipReads, mkdirCalls, writeCalls, writesDone, dirAtWrite, dirAtLaunch, filesAtLaunch>>
  /\ UNCHANGED concurrent

\* the catch-all: await showToast("Error", error.message); a throw here
\* rejects the command's promise
CommandToastError ==
  /\ cmd = "saveNote" /\ pc = "toastError"
  /\ \E threw \in BOOLEAN :
       /\ Report("Error", error, threw)
       /\ rejected' = threw
  /\ pc' = "done"
  /\ UNCHANGED <<env, runs, cmd, argument, noteContent, content, now, docNow, filename,
                 finalOutput, isSubmitting, isLoading, resolved, error, selReads,
                 clipReads, mkdirCalls, writeCalls, writesDone, dirAtWrite, dirAtLaunch, filesAtLaunch>>
  /\ UNCHANGED concurrent

\* ------------------------------------------- note form and saveNoteContent
\* mutant: handleSubmit without the non-empty validation
SubmitForm_NoValidation ==
  /\ Fresh("form")
  /\ \E c \in FormValues : content' = c
  /\ pc' = "access"
  /\ isSubmitting' = TRUE
  /\ argument' = Undefined
  /\ noteContent' = Undefined
  /\ resolved' = NoText
  /\ isLoading' = FALSE

\* mutant: handleSubmit sets isSubmitting before it checks the content
SubmitForm_SubmittingFirst ==
  /\ Fresh("form")
  /\ \E c \in FormValues :
       /\ content' = c
       /\ pc' = IF hasContent(c) THEN "access" ELSE "toastNoContent"
  /\ isSubmitting' = TRUE
  /\ argument' = Undefined
  /\ noteContent' = Undefined
  /\ resolved' = NoText
  /\ isLoading' = FALSE

\* the user triggers Save Note in the form: handleSubmit checks the content,
\* sets isSubmitting and calls saveNoteContent, which awaits access()
SubmitForm ==
  /\ Fresh("form")
  /\ \E c \in FormValues :
       /\ content' = c
       /\ pc' = IF hasContent(c) THEN "access" ELSE "toastNoContent"
       /\ isSubmitting' = hasContent(c)
  /\ argument' = Undefined
  /\ noteContent' = Undefined
  /\ resolved' = NoText
  /\ isLoading' = FALSE

\* saveNoteContent: await access(notesDir, constants.W_OK)
SaveAccess ==
  /\ cmd = "form" /\ pc = "access"
  /\ pc' = IF accessOk(dirState) THEN "generateFilename" ELSE "mkdir"
  /\ UNCHANGED <<env, runs, cmd, locals, observed>>
  /\ UNCHANGED concurrent

\* saveNoteContent: await mkdir(notesDir, { recursive: true }), a failure
\* rethrown as "Cannot access or create notes directory"
SaveMkdir ==
  /\ cmd = "form" /\ pc = "mkdir"
  /\ mkdirCalls' = mkdirCalls + 1
  /\ IF mkdirOk(dirState)
     THEN /\ dirState' = afterMkdir(dirState)
          /\ pc' = "generateFilename"
          /\ error' = error
     ELSE /\ pc' = "toastFailed"
          /\ error' = "directory"
          /\ dirState' = dirState
  /\ UNCHANGED <<files, selection, clipboard, clock, prefs, runs, cmd, argument,
                 noteContent, content, now, docNow, filename, finalOutput, isSubmitting,
                 isLoading, resolved, reports, rejected, selReads, clipReads, writeCalls, writesDone,
                 dirAtWrite, dirAtLaunch, filesAtLaunch>>
  /\ UNCHANGED concurrent

\* saveNoteContent: const filename = generateFilename(prefs.filenameFormat),
\* which constructs its own Date
SaveGenerateFilename ==
  /\ cmd = "form" /\ pc = "generateFilename"
  /\ now' = DateAt(clock)
  /\ filename' = generateFilename(prefs.filenameFormat, DateAt(clock))
  /\ pc' = "formatContent"
  /\ UNCHANGED <<env, runs, cmd, argument, noteContent, content, docNow, finalOutput,
                 isSubmitting, isLoading, resolved, error, observed>>
  /\ UNCHANGED concurrent

\* saveNoteContent: const formattedContent = formatContent(content, prefs),
\* which constructs its own Date when frontmatter is enabled
SaveFormatContent ==
  /\ cmd = "form" /\ pc = "formatContent"
  /\ docNow' = IF prefs.enableFrontmatter THEN DateAt(clock) ELSE docNow
  /\ finalOutput' = formatContent(content, prefs, DateAt(clock))
  /\ pc' = "write"
  /\ UNCHANGED <<env, runs, cmd, argument, noteContent, content, now, filename,
                 isSubmitting, isLoading, resolved, error, observed>>
  /\ UNCHANGED concurrent

\* saveNoteContent: await writeFile(filePath, formattedContent, "utf-8"), a
\* failure rethrown as "Failed to write file: ..."
SaveWrite ==
  /\ cmd = "form" /\ pc = "write"
  /\ writeCalls' = writeCalls + 1
  /\ dirAtWrite' = dirState
  /\ \E ok \in writeOutcomes(dirState) :
       IF ok
       THEN /\ files' = fileWritten(files,
                 [name |-> filename, doc |-> finalOutput, body |-> content,
                  fileDate |-> now, docDate |-> docNow, via |-> cmd])
            /\ writesDone' = writesDone + 1
            /\ pc' = "toastSaved"
            /\ error' = error
       ELSE /\ pc' = "toastFailed"
            /\ error' = "write"
            /\ files' = files
            /\ writesDone' = writesDone
  /\ UNCHANGED <<dirState, selection, clipboard, clock, prefs, runs, cmd, argument,
                 noteContent, content, now, docNow, filename, finalOutput, isSubmitting,
                 isLoading, resolved, reports, rejected, selReads, clipReads, mkdirCalls,
                 dirAtLaunch, filesAtLaunch>>
  /\ UNCHANGED concurrent

\* handleSubmit: await showToast("Note saved", filename), inside the try
FormToastSaved ==
  /\ cmd = "form" /\ pc = "toastSaved"
  /\ \E threw \in BOOLEAN :
       /\ Report("Note saved", filename, threw)
       /\ pc' = IF threw THEN "toastFailed" ELSE "done"
       /\ error' = IF threw THEN "toast" ELSE error
       /\ isSubmitting' = IF threw THEN isSubmitting ELSE FALSE
  /\ UNCHANGED <<env, runs, cmd, argument, noteContent, content, now, docNow, filename,
                 finalOutput, isLoading, resolved, rejected, selReads, clipReads,
                 mkdirCalls, writeCalls, writesDone, dirAtWrite, dirAtLaunch, filesAtLaunch>>
  /\ UNCHANGED concurrent

\* handleSubmit: catch { await showToast("Failed to save note") } finally
\* { setIsSubmitting(false) }
FormToastFailed ==
  /\ cmd = "form" /\ pc = "toastFailed"
  /\ \E threw \in BOOLEAN :
       /\ Report("Failed to save note", error, threw)
       /\ rejected' = threw
  /\ isSubmitting' = FALSE
  /\ pc' = "done"
  /\ UNCHANGED <<env, runs, cmd, argument, noteContent, content, now, docNow, filename,
                 finalOutput, isLoading, resolved, error, selReads, clipReads, mkdirCalls,
                 writeCalls, writesDone, dirAtWrite, dirAtLaunch, filesAtLaunch>>
  /\ UNCHANGED concurrent

\* handleSubmit: await showToast("No content to save"); return
FormToastNoContent ==
  /\ cmd = "form" /\ pc = "toastNoContent"
  /\ \E threw \in BOOLEAN :
       /\ Report("No content to save", "none", threw)
       /\ rejected' = threw
  /\ pc' = "done"
  /\ UNCHANGED <<env, runs, cmd, locals, selReads, clipReads, mkdirCalls, writeCalls, writesDone,
                 dirAtWrite, dirAtLaunch, filesAtLaunch>>
  /\ UNCHANGED concurrent

\* ------------------------------------------------------ useContentResolver
\* what resolveContent(initialContent) returns when getSelectedText() yields
\* sel and Clipboard.readText() yields clip
resolveContent(initialContent, sel, clip) ==
  IF hasContent(initialContent) THEN initialContent
  ELSE IF sel # Throws /\ hasContent(sel) THEN sel
  ELSE IF clip # Throws /\ hasContent(clip) THEN clip
  ELSE Null

\* resolveContent(initialContent): priority 1, else setIsLoading(true) and
\* await getSelectedText()
CallResolveContent ==
  /\ Fresh("hook")
  /\ \E a \in ArgumentValues :
       /\ argument' = a
       /\ pc' = IF hasContent(a) THEN "done" ELSE "selection"
       /\ resolved' = IF hasContent(a) THEN a ELSE NoText
       /\ isLoading' = ~hasContent(a)
  /\ noteContent' = Undefined
  /\ content' = Undefined
  /\ isSubmitting' = FALSE

\* resolveContent: selectedText = await getSelectedText(), a throw swallowed
HookSelection ==
  /\ cmd = "hook" /\ pc = "selection"
  /\ selReads' = selReads + 1
  /\ IF selection # Throws /\ hasContent(selection)
     THEN /\ resolved' = selection
          /\ isLoading' = FALSE
          /\ pc' = "done"
     ELSE /\ pc' = "clipboard"
          /\ UNCHANGED <<resolved, isLoading>>
  /\ UNCHANGED <<env, runs, cmd, argument, noteContent, content, now, docNow, filename,
                 finalOutput, isSubmitting, error, reports, rejected, clipReads,
                 mkdirCalls, writeCalls, writesDone, dirAtWrite, dirAtLaunch, filesAtLaunch>>
  /\ UNCHANGED concurrent

\* resolveContent: clipboardText = await Clipboard.readText(), a throw
\* swallowed; null when nothing was found; finally setIsLoading(false)
HookClipboard ==
  /\ cmd = "hook" /\ pc = "clipboard"
  /\ clipReads' = clipReads + 1
  /\ resolved' = IF clipboard # Throws /\ hasContent(clipboard) THEN clipboard ELSE Null
  /\ isLoading' = FALSE
  /\ pc' = "done"
  /\ UNCHANGED <<env, runs, cmd, argument, noteContent, content, now, docNow, filename,
                 finalOutput, isSubmitting, error, reports, rejected, selReads,
                 mkdirCalls, writeCalls, writesDone, dirAtWrite, dirAtLaunch, filesAtLaunch>>
  /\ UNCHANGED concurrent

\* ------------------------------------------------------------ specification
Next ==
  \/ Tick
  \/ LaunchSaveNote
  \/ CommandAccess
  \/ CommandMkdir
  \/ CommandToastDirectory
  \/ CommandSelection
  \/ CommandClipboard
  \/ CommandToastNoContent
  \/ CommandWrite
  \/ CommandHud
  \/ CommandToastFailed
  \/ CommandToastError
  \/ SubmitForm
  \/ SaveAccess
  \/ SaveMkdir
  \/ SaveGenerateFilename
  \/ SaveFormatContent
  \/ SaveWrite
  \/ FormToastSaved
  \/ FormToastFailed
  \/ FormToastNoContent
  \/ CallResolveContent
  \/ HookSelection
  \/ HookClipboard

Spec == Init /\ [][Next]_vars

TypeOK ==
  /\ dirState \in DirStates
  /\ clock \in 0..MaxClock
  /\ runs \in 0..MaxRuns
  /\ cmd \in {"none", "saveNote", "form", "hook"}
  /\ isSubmitting \in BOOLEAN
  /\ isLoading \in BOOLEAN
  /\ rejected \in BOOLEAN

\* ----------------------------------- Save Note invocations side by side
\* Two launches of Save Note with an argument, into a writable notes
\* directory, running at the same time: each runs Command from the Date it
\* constructs to its last report. writeFile(path, data, "utf-8") opens the
\* path with flag "w" (create or truncate), writes the data from offset 0 of
\* its own descriptor, and closes; the steps of two calls may interleave.
ConcurrentInvocations == 2
Invokers == 1..ConcurrentInvocations
ConcurrentArguments == {<<"a">>, <<"b", "b">>}

\* write(fd, data) at offset 0 of a file holding old
Overlay(old, data) ==
  data \o (IF Len(old) > Len(data) THEN SubSeq(old, Len(data) + 1, Len(old)) ELSE <<>>)

\* what the specifications of one part of the program leave at rest: a
\* writable, empty notes directory and no invocation of the commands
Resting ==
  /\ dirState = "writable"
  /\ files = {}
  /\ selection = Throws
  /\ clipboard = Throws
  /\ clock = 0
  /\ runs = 0
  /\ argument = Undefined
  /\ noteContent = Undefined
  /\ isSubmitting = FALSE
  /\ isLoading = FALSE
  /\ resolved = NoText
  /\ error = "none"
  /\ reports = <<>>
  /\ rejected = FALSE
  /\ selReads = 0
  /\ clipReads = 0
  /\ mkdirCalls = 0
  /\ writeCalls = 0
  /\ writesDone = 0
  /\ dirAtWrite = "none"
  /\ dirAtLaunch = "writable"
  /\ filesAtLaunch = {}

InitConcurrent ==
  /\ Resting
  /\ prefs \in PrefsValues
  /\ cmd = "none"
  /\ pc = "idle"
  /\ content = Undefined
  /\ now = NoDate
  /\ docNow = NoDate
  /\ filename = NoText
  /\ finalOutput = NoText
  /\ invocations \in [Invokers ->
       {[pc |-> "format", noteContent |-> a, now |-> NoDate, filename |-> NoText,
         finalOutput |-> NoText, error |-> "none", reports |-> <<>>] :
          a \in ConcurrentArguments}]
  /\ completed = <<>>
  /\ form = NoForm

\* what a step of one of the concurrent invocations leaves alone
ConcurrentFrame ==
  UNCHANGED <<dirState, selection, clipboard, prefs, runs, cmd, pc, locals, observed, form>>

\* Command of invocation i: const now = new Date(), filename, finalOutput
ConcurrentFormat(i) ==
  /\ invocations[i].pc = "format"
  /\ invocations' = [invocations EXCEPT
       ![i].pc = "open",
       ![i].now = DateAt(clock),
       ![i].filename = generateFilename(prefs.filenameFormat, DateAt(clock)),
       ![i].finalOutput = formatContent(invocations[i].noteContent, prefs, DateAt(clock))]
  /\ UNCHANGED <<files, clock, completed>>
  /\ ConcurrentFrame

\* writeFile of invocation i opens the path with flag "w": the file is
\* created, or truncated to nothing; or the open fails
WriteFileOpen(i) ==
  /\ invocations[i].pc = "open"
  /\ \E ok \in writeOutcomes(dirState) :
       IF ok
       THEN /\ files' = fileWritten(files,
                 [name |-> invocations[i].filename, doc |-> <<>>,
                  body |-> invocations[i].noteContent, fileDate |-> invocations[i].now,
                  docDate |-> invocations[i].now, via |-> "saveNote"])
            /\ invocations' = [invocations EXCEPT ![i].pc = "write"]
       ELSE /\ files' = files
            /\ invocations' = [invocations EXCEPT ![i].pc = "toastFailed",
                                                  ![i].error = "write"]
  /\ UNCHANGED <<clock, completed>>
  /\ ConcurrentFrame

\* writeFile of invocation i writes its data from offset 0 and closes: what
\* another descriptor wrote beyond the data's length stays in the file
WriteFileWrite(i) ==
  /\ invocations[i].pc = "write"
  /\ \E f \in files :
       /\ f.name = invocations[i].filename
       /\ files' = fileWritten(files,
            [name |-> f.name, doc |-> Overlay(f.doc, invocations[i].finalOutput),
             body |-> invocations[i].noteContent, fileDate |-> invocations[i].now,
             docDate |-> invocations[i].now, via |-> "saveNote"])
  /\ invocations' = [invocations EXCEPT ![i].pc = "hud"]
  /\ completed' = Append(completed, i)
  /\ UNCHANGED clock
  /\ ConcurrentFrame

\* await showHUD(`Note Saved: ${filename}`) of invocation i
ConcurrentHud(i) ==
  /\ invocations[i].pc = "hud"
  /\ \E threw \in BOOLEAN :
       invocations' = [invocations EXCEPT
         ![i].reports = Append(@, [kind |-> "Note Saved",
                                   detail |-> invocations[i].filename, threw |-> threw]),
         ![i].pc = IF threw THEN "toastFailed" ELSE "done",
         ![i].error = IF threw THEN "hud" ELSE @]
  /\ UNCHANGED <<files, clock, completed>>
  /\ ConcurrentFrame

\* catch (error) { await showToast("Failed to save note") } of invocation i
ConcurrentToastFailed(i) ==
  /\ invocations[i].pc = "toastFailed"
  /\ \E threw \in BOOLEAN :
       invocations' = [invocations EXCEPT
         ![i].reports = Append(@, [kind |-> "Failed to save note",
                                   detail |-> invocations[i].error, threw |-> threw]),
         ![i].pc = IF threw THEN "toastError" ELSE "done",
         ![i].error = IF threw THEN "toast" ELSE @]
  /\ UNCHANGED <<files, clock, completed>>
  /\ ConcurrentFrame

\* the catch-all showToast("Error") of invocation i
ConcurrentToastError(i) ==
  /\ invocations[i].pc = "toastError"
  /\ \E threw \in BOOLEAN :
       invocations' = [invocations EXCEPT
         ![i].reports = Append(@, [kind |-> "Error",
                                   detail |-> invocations[i].error, threw |-> threw]),
         ![i].pc = "done"]
  /\ UNCHANGED <<files, clock, completed>>
  /\ ConcurrentFrame

NextConcurrent ==
  \/ Tick
  \/ \E i \in Invokers : ConcurrentFormat(i)
  \/ \E i \in Invokers : WriteFileOpen(i)
  \/ \E i \in Invokers : WriteFileWrite(i)
  \/ \E i \in Invokers : ConcurrentHud(i)
  \/ \E i \in Invokers : ConcurrentToastFailed(i)
  \/ \E i \in Invokers : ConcurrentToastError(i)

SpecConcurrent == InitConcurrent /\ [][NextConcurrent]_<<vars, concurrent>>

\* ------------------------------------------- generateFilename on its own
\* generateFilename(format) called with a format from FilenameFormats while
\* new Date() gives a Date from the set that goes with the format
MaxFormatLen == 4
FormatAlphabet == {"Y", "M", "D", "h", "m", "A", "a", "-"}

\* every text over alphabet of length at most n
RECURSIVE TextsUpTo(_, _)
TextsUpTo(alphabet, n) ==
  IF n = 0 THEN {<<>>}
  ELSE LET shorter == TextsUpTo(alphabet, n - 1)
       IN shorter \cup {Append(t, c) : t \in shorter, c \in alphabet}

\* formats whose tokens read the clock fields one at a time, the two
\* documented formats, and formats with letters that are no tokens
CompactDateFormat == <<"Y", "Y", "Y", "Y", "M", "M", "D", "D">>
MeridiemFormat ==
  <<"Y", "Y", "Y", "Y", "-", "M", "M", "-", "D", "D", "-">>
    \o <<"h", "h", "-", "m", "m", "-", "A">>
HourFormats == {<<"h">>, <<"h", "h">>, <<"A">>, <<"a">>, <<"h", "A">>}
ClockFormats == {DefaultFormat, Undefined} \cup HourFormats
InvalidFormats == {<<"Q", "Q", "Q", "Q">>, <<"Y", "Y", "Y", "Y", "-", "Q", "Q">>}
FilenameFormats ==
  TextsUpTo(FormatAlphabet, MaxFormatLen)
    \cup {FormatKeys[k] : k \in 1..Len(FormatKeys)}
    \cup {CompactDateFormat, DailyFormat, MeridiemFormat} \cup ClockFormats \cup InvalidFormats

\* the Dates new Date() may give: a few for every format, and every hour of
\* several days for the formats in ClockFormats
FewDates ==
  {[year |-> 2024, month |-> 2, date |-> 5, hours |-> 9, minutes |-> 7, seconds |-> 3],
   [year |-> 2024, month |-> 11, date |-> 31, hours |-> 23, minutes |-> 59, seconds |-> 59],
   [year |-> 1999, month |-> 9, date |-> 10, hours |-> 0, minutes |-> 0, seconds |-> 0],
   [year |-> 2024, month |-> 2, date |-> 5, hours |-> 14, minutes |-> 30, seconds |-> 0]}
ManyDates ==
  [year : {1999, 2024}, month : {2, 11}, date : {5, 31}, hours : 0..23,
   minutes : {7, 59}, seconds : {3, 59}]
DatesFor(format) == IF format \in ClockFormats THEN ManyDates ELSE FewDates

InitFilename ==
  /\ Resting
  /\ \E format \in FilenameFormats : prefs = [BasePrefs EXCEPT !.filenameFormat = format]
  /\ cmd = "generateFilename"
  /\ pc = "call"
  /\ content = Undefined
  /\ now = NoDate
  /\ docNow = NoDate
  /\ filename = NoText
  /\ finalOutput = NoText
  /\ invocations = <<>>
  /\ completed = <<>>
  /\ form = NoForm

\* generateFilename(prefs.filenameFormat): const now = new Date(), the token
\* replacement, and the file name returned
CallGenerateFilename ==
  /\ cmd = "generateFilename" /\ pc = "call"
  /\ \E date \in DatesFor(prefs.filenameFormat) :
       /\ now' = date
       /\ filename' = generateFilename(prefs.filenameFormat, date)
  /\ pc' = "return"
  /\ UNCHANGED <<env, runs, cmd, argument, noteContent, content, docNow, finalOutput,
                 isSubmitting, isLoading, resolved, error, observed, concurrent>>

NextFilename == CallGenerateFilename

SpecFilename == InitFilename /\ [][NextFilename]_<<vars, concurrent>>

\* ---------------------------------------------- formatContent on its own
\* formatContent(content, prefs) called with a content from DocumentContents
\* under preferences from DocumentPrefs, while new Date() gives a Date from
\* FewDates
MeetingNotes ==
  <<"#", " ", "M", "e", "e", "t", "i", "n", "g", " ", "N", "o", "t", "e", "s", "\n">>
    \o <<"b", "o", "d", "y", " ", "t", "e", "x", "t">>
LongLine == [k \in 1..(TitleLimit + 1) |-> IF k = 1 THEN "y" ELSE "x"]
DocumentContents ==
  {<<"H", "e", "l", "l", "o", " ", "w", "o", "r", "l", "d">>,
   <<"#", " ", "T", "\n", "x">>,
   <<" ", "a", " ">>,
   <<"a", "\n">>,
   MeetingNotes,
   LongLine,
   <<"#", "#", " ">> \o LongLine \o <<"\n", "b">>,
   <<"#", "\n", "b">>,
   <<" ", "#", " ", "T">>}
MeetingTags ==
  <<" ", " ", "m", "e", "e", "t", "i", "n", "g", ",", " ", ",", " ">>
    \o <<"p", "r", "o", "d", "u", "c", "t", " ">>
DefaultTagsValues ==
  {Undefined, <<>>, <<"a">>, <<"a", ",", " ", "b">>, <<" ", ",">>, MeetingTags}
DefaultAuthorValues == {Undefined, <<>>, <<"m", "e">>}
DocumentPrefs ==
  [filenameFormat : {DefaultFormat},
   enableFrontmatter : BOOLEAN,
   frontmatterIncludeDate : BOOLEAN,
   frontmatterIncludeType : BOOLEAN,
   frontmatterIncludeTitle : BOOLEAN,
   frontmatterIncludeTags : BOOLEAN,
   frontmatterDefaultTags : DefaultTagsValues,
   frontmatterIncludeAuthor : BOOLEAN,
   frontmatterDefaultAuthor : DefaultAuthorValues,
   frontmatterIncludeSource : BOOLEAN]

InitDocument ==
  /\ Resting
  /\ prefs \in DocumentPrefs
  /\ cmd = "formatContent"
  /\ pc = "call"
  /\ content \in DocumentContents
  /\ now = NoDate
  /\ docNow = NoDate
  /\ filename = NoText
  /\ finalOutput = NoText
  /\ invocations = <<>>
  /\ completed = <<>>
  /\ form = NoForm

\* formatContent(content, prefs): const now = new Date() when frontmatter is
\* enabled, the field lines, and the document returned
CallFormatContent ==
  /\ cmd = "formatContent" /\ pc = "call"
  /\ \E date \in FewDates :
       /\ docNow' = IF prefs.enableFrontmatter THEN date ELSE docNow
       /\ finalOutput' = formatContent(content, prefs, date)
  /\ pc' = "return"
  /\ UNCHANGED <<env, runs, cmd, argument, noteContent, content, now, filename,
                 isSubmitting, isLoading, resolved, error, observed, concurrent>>

NextDocument == CallFormatContent

SpecDocument == InitDocument /\ [][NextDocument]_<<vars, concurrent>>

\* ---------------------------------------------------- the Detail NoteForm
\* NoteForm of components/NoteForm.tsx mounted once with initialContent: its
\* mount effect, the actions of its ActionPanel, and handleSubmit called up
\* to MaxSubmits times, a call starting whether or not an earlier one returned
MaxSubmits == 2
Submits == 1..MaxSubmits
InitialContents == {Undefined, <<"i">>}
FormDirStates == {"writable", "readonly", "absent", "blocked"}

InitForm ==
  /\ dirState \in FormDirStates
  /\ files = {}
  /\ selection \in SelectionValues
  /\ clipboard \in ClipboardValues
  /\ clock = 0
  /\ prefs = BasePrefs
  /\ runs = 0
  /\ cmd = "noteForm"
  /\ pc = "idle"
  /\ argument = Undefined
  /\ noteContent = Undefined
  /\ content = Undefined
  /\ now = NoDate
  /\ docNow = NoDate
  /\ filename = NoText
  /\ finalOutput = NoText
  /\ isSubmitting = FALSE
  /\ isLoading = FALSE
  /\ resolved = NoText
  /\ error = "none"
  /\ reports = <<>>
  /\ rejected = FALSE
  /\ selReads = 0
  /\ clipReads = 0
  /\ mkdirCalls = 0
  /\ writeCalls = 0
  /\ writesDone = 0
  /\ dirAtWrite = "none"
  /\ dirAtLaunch = dirState
  /\ filesAtLaunch = {}
  /\ invocations = <<>>
  /\ completed = <<>>
  /\ \E initialContent \in InitialContents :
       form = [initialContent |-> initialContent,
               content |-> <<>>,
               isSubmitting |-> FALSE,
               isLoading |-> FALSE,
               initializeContent |-> "effect",
               setBy |-> "none",
               toasts |-> {},
               handleSubmit |-> [i \in Submits |->
                 [pc |-> "idle", content |-> Undefined, filename |-> NoText,
                  error |-> "none"]]]

\* what a step of the form leaves alone
FormFrame ==
  UNCHANGED <<selection, clipboard, clock, prefs, runs, cmd, pc, locals, observed,
              invocations, completed>>

\* useEffect after the first render: initializeContent() sets the content to
\* initialContent, or calls resolveContent(), which sets isLoading and awaits
\* getSelectedText()
InitializeContent ==
  /\ form.initializeContent = "effect"
  /\ form' = IF Truthy(form.initialContent)
             THEN [form EXCEPT !.content = form.initialContent,
                               !.setBy = "mount",
                               !.initializeContent = "done"]
             ELSE [form EXCEPT !.isLoading = TRUE,
                               !.initializeContent = "selection"]
  /\ UNCHANGED <<dirState, files>>
  /\ FormFrame

\* getSelectedText() settles inside resolveContent(): a selection with
\* content is returned, isLoading reset and the content set to it; otherwise
\* resolveContent awaits Clipboard.readText()
InitializeFromSelection ==
  /\ form.initializeContent = "selection"
  /\ form' = IF selection # Throws /\ hasContent(selection)
             THEN [form EXCEPT !.content = selection,
                               !.setBy = "mount",
                               !.isLoading = FALSE,
                               !.initializeContent = "done"]
             ELSE [form EXCEPT !.initializeContent = "clipboard"]
  /\ UNCHANGED <<dirState, files>>
  /\ FormFrame

\* Clipboard.readText() settles inside resolveContent(): a clipboard with
\* content is returned and the content set to it; otherwise null is returned
\* and the content left as it is
InitializeFromClipboard ==
  /\ form.initializeContent = "clipboard"
  /\ form' = IF clipboard # Throws /\ hasContent(clipboard)
             THEN [form EXCEPT !.content = clipboard,
                               !.setBy = "mount",
                               !.isLoading = FALSE,
                               !.initializeContent = "done"]
             ELSE [form EXCEPT !.isLoading = FALSE,
                               !.initializeContent = "done"]
  /\ UNCHANGED <<dirState, files>>
  /\ FormFrame

\* the Clear Content action: setContent("")
ClearContent ==
  /\ form.initializeContent \notin {"unmounted", "effect"}
  /\ form' = [form EXCEPT !.content = <<>>, !.setBy = "user"]
  /\ UNCHANGED <<dirState, files>>
  /\ FormFrame

\* the Use Selection action: the selected text, when truthy, becomes the
\* content; a failed read shows "No selection available"
UseSelection ==
  /\ form.initializeContent \notin {"unmounted", "effect"}
  /\ form' = IF selection = Throws
             THEN [form EXCEPT !.toasts = @ \cup {"No selection available"}]
             ELSE IF Truthy(selection)
             THEN [form EXCEPT !.content = selection, !.setBy = "user"]
             ELSE form
  /\ UNCHANGED <<dirState, files>>
  /\ FormFrame

\* the Use Clipboard action: the clipboard text, when truthy, becomes the
\* content; a failed read shows "Clipboard empty"
UseClipboard ==
  /\ form.initializeContent \notin {"unmounted", "effect"}
  /\ form' = IF clipboard = Throws
             THEN [form EXCEPT !.toasts = @ \cup {"Clipboard empty"}]
             ELSE IF Truthy(clipboard)
             THEN [form EXCEPT !.content = clipboard, !.setBy = "user"]
             ELSE form
  /\ UNCHANGED <<dirState, files>>
  /\ FormFrame

\* the Save Note action, for the i-th time: handleSubmit checks the content
\* of the render it was created in, then sets isSubmitting and calls
\* saveNoteContent(content, prefs)
HandleSubmit(i) ==
  /\ form.initializeContent \notin {"unmounted", "effect"}
  /\ form.handleSubmit[i].pc = "idle"
  /\ \A j \in Submits : j < i => form.handleSubmit[j].pc # "idle"
  /\ form' = IF hasContent(form.content)
             THEN [form EXCEPT !.isSubmitting = TRUE,
                               !.handleSubmit[i].content = form.content,
                               !.handleSubmit[i].pc = "saveNoteContent"]
             ELSE [form EXCEPT !.handleSubmit[i].content = form.content,
                               !.handleSubmit[i].pc = "toastNoContent"]
  /\ UNCHANGED <<dirState, files>>
  /\ FormFrame

\* saveNoteContent of the i-th handleSubmit: access() or else mkdir(), the
\* file name and the document from new Date(), and writeFile(); it returns
\* the file name or throws
SubmitSaveNoteContent(i) ==
  /\ form.handleSubmit[i].pc = "saveNoteContent"
  /\ LET dir == IF accessOk(dirState) THEN dirState ELSE afterMkdir(dirState)
         date == DateAt(clock)
         name == generateFilename(prefs.filenameFormat, date)
         note == form.handleSubmit[i].content
     IN IF ~accessOk(dirState) /\ ~mkdirOk(dirState)
        THEN /\ form' = [form EXCEPT !.handleSubmit[i].pc = "toastFailed",
                                     !.handleSubmit[i].error = "directory"]
             /\ UNCHANGED <<dirState, files>>
        ELSE /\ dirState' = dir
             /\ \E ok \in writeOutcomes(dir) :
                  IF ok
                  THEN /\ files' = fileWritten(files,
                            [name |-> name, doc |-> formatContent(note, prefs, date),
                             body |-> note, fileDate |-> date, docDate |-> date,
                             via |-> cmd])
                       /\ form' = [form EXCEPT !.handleSubmit[i].pc = "toastSaved",
                                               !.handleSubmit[i].filename = name]
                  ELSE /\ files' = files
                       /\ form' = [form EXCEPT !.handleSubmit[i].pc = "toastFailed",
                                               !.handleSubmit[i].error = "write"]
  /\ FormFrame

\* the i-th handleSubmit: await showToast("Note saved"), then finally
\* { setIsSubmitting(false) }; a toast that throws is caught
SubmitToastSaved(i) ==
  /\ form.handleSubmit[i].pc = "toastSaved"
  /\ \E threw \in BOOLEAN :
       form' = IF threw
               THEN [form EXCEPT !.handleSubmit[i].pc = "toastFailed",
                                 !.handleSubmit[i].error = "toast"]
               ELSE [form EXCEPT !.toasts = @ \cup {"Note saved"},
                                 !.isSubmitting = FALSE,
                                 !.handleSubmit[i].pc = "done"]
  /\ UNCHANGED <<dirState, files>>
  /\ FormFrame

\* the i-th handleSubmit: catch { await showToast("Failed to save note") }
\* finally { setIsSubmitting(false) }
SubmitToastFailed(i) ==
  /\ form.handleSubmit[i].pc = "toastFailed"
  /\ form' = [form EXCEPT !.toasts = @ \cup {"Failed to save note"},
                          !.isSubmitting = FALSE,
                          !.handleSubmit[i].pc = "done"]
  /\ UNCHANGED <<dirState, files>>
  /\ FormFrame

\* the i-th handleSubmit: await showToast("No content to save"); return
SubmitToastNoContent(i) ==
  /\ form.handleSubmit[i].pc = "toastNoContent"
  /\ form' = [form EXCEPT !.toasts = @ \cup {"No content to save"},
                          !.handleSubmit[i].pc = "done"]
  /\ UNCHANGED <<dirState, files>>
  /\ FormFrame

NextForm ==
  \/ Tick
  \/ InitializeContent
  \/ InitializeFromSelection
  \/ InitializeFromClipboard
  \/ ClearContent
  \/ UseSelection
  \/ UseClipboard
  \/ \E i \in Submits : HandleSubmit(i)
  \/ \E i \in Submits : SubmitSaveNoteContent(i)
  \/ \E i \in Submits : SubmitToastSaved(i)
  \/ \E i \in Submits : SubmitToastFailed(i)
  \/ \E i \in Submits : SubmitToastNoContent(i)

SpecForm == InitForm /\ [][NextForm]_<<vars, concurrent>>

\* ------------------------------------------------------------------ claims
\* a source yields content: a text whose trimmed length is not zero
NonBlank(v) == IsText(v) /\ Trim(v) # <<>>

EndsWith(s, suffix) ==
  Len(suffix) <= Len(s) /\ SubSeq(s, Len(s) - Len(suffix) + 1, Len(s)) = suffix

\* the kinds of the invocation's report calls, and of those that returned
ReportKinds == {reports[i].kind : i \in 1..Len(reports)}
Delivered == SelectSeq(reports, LAMBDA r : ~r.threw)

\* the file the current invocation's writeFile() left in the directory
WrittenNow == {f \in files : f.name = filename}

\* the first of argument, selection, clipboard that yields content
FirstYield ==
  IF NonBlank(argument) THEN argument
  ELSE IF NonBlank(selection) THEN selection
  ELSE IF NonBlank(clipboard) THEN clipboard
  ELSE NoText

\* C1: whenever the argument of Save Note, or the initial content given to
\* resolveContent, has non-empty trimmed text, the content saved or returned
\* is that text unchanged, and neither the selection nor the clipboard is read
C1_PriorityOneWins ==
  /\ (cmd = "saveNote" /\ NonBlank(argument)) =>
       /\ selReads = 0 /\ clipReads = 0
       /\ pc # "toastNoContent"
       /\ "No content to save" \notin ReportKinds
       /\ noteContent \in {Undefined, argument}
       /\ finalOutput # NoText => EndsWith(finalOutput, argument)
       /\ writesDone > 0 =>
            \E f \in WrittenNow : /\ f.body = argument
                                  /\ EndsWith(f.doc, argument)
                                  /\ ~prefs.enableFrontmatter => f.doc = argument
  /\ (cmd = "hook" /\ NonBlank(argument)) =>
       /\ selReads = 0 /\ clipReads = 0
       /\ pc = "done" /\ resolved = argument

\* C1 witness: an argument with surrounding blanks was saved as it is, while
\* the selection and the clipboard both held text
C1_Witness ==
  /\ cmd = "saveNote" /\ pc = "done"
  /\ argument = <<" ", "a", " ">>
  /\ selection = <<"s">> /\ clipboard = <<"c">>
  /\ writesDone = 1
  /\ \E f \in WrittenNow : f.body = <<" ", "a", " ">>

\* C2: the command saves the first of argument, selection, clipboard whose
\* trimmed text is non-empty, skipping a source that is blank, and reports
\* 'no content' only when none of the three has non-empty trimmed text
C2_StrictPriorityFallback ==
  cmd = "saveNote" =>
    /\ pc = "write" => noteContent = FirstYield
    /\ pc = "toastNoContent" => FirstYield = NoText

\* C3: when no source yields non-empty trimmed text the save ends with the
\* 'no content' rejection and writeFile is never called
C3_NoContentNoWrite ==
  (cmd = "saveNote" /\ FirstYield = NoText) =>
    /\ writeCalls = 0
    /\ files = filesAtLaunch
    /\ pc \notin {"write", "hud"}
    /\ "Note Saved" \notin ReportKinds
    /\ (pc = "done" /\ (accessOk(dirAtLaunch) \/ mkdirOk(dirAtLaunch))) =>
         reports[1].kind = "No content to save"

\* C3 witness: no argument, the selection read failed, the clipboard gave "",
\* and the invocation ended with the single report 'No content to save'
C3_Witness ==
  /\ cmd = "saveNote" /\ pc = "done"
  /\ argument = Undefined /\ selection = Throws /\ clipboard = <<>>
  /\ selReads = 1 /\ clipReads = 1
  /\ reports = <<[kind |-> "No content to save", detail |-> "none", threw |-> FALSE]>>
  /\ writeCalls = 0

\* C4: every file written, by the command or by the form, has a content body
\* whose trimmed length is greater than zero
C4_NoBlankContentPersisted ==
  \A f \in files :
    /\ IsText(f.body)
    /\ Len(Trim(f.body)) > 0
    /\ EndsWith(f.doc, f.body)

\* C4 witness: the directory holds a file saved by the command and a file
\* saved by the form, after a form submit of blank content was turned down
C4_Witness ==
  /\ \E f \in files : f.via = "saveNote"
  /\ \E f \in files : f.via = "form"

\* the year, month, day, hour and minute digits of a file name made from the
\* default format, and of the date line that opens a document's frontmatter
NameDateDigits(name) ==
  <<SubSeq(name, 1, 4), SubSeq(name, 6, 7), SubSeq(name, 9, 10),
    SubSeq(name, 12, 13), SubSeq(name, 14, 15)>>
DocDateDigits(doc) ==
  <<SubSeq(doc, 11, 14), SubSeq(doc, 16, 17), SubSeq(doc, 19, 20),
    SubSeq(doc, 22, 23), SubSeq(doc, 25, 26)>>

\* C5: within one save the file name and the frontmatter date field come from
\* one clock instant: their year, month, day, hour and minute agree, for the
\* command and for saveNoteContent alike
C5_OneClockInstant ==
  (prefs.enableFrontmatter /\ prefs.frontmatterIncludeDate) =>
    \A f \in files :
      /\ f.fileDate.year = f.docDate.year
      /\ f.fileDate.month = f.docDate.month
      /\ f.fileDate.date = f.docDate.date
      /\ f.fileDate.hours = f.docDate.hours
      /\ f.fileDate.minutes = f.docDate.minutes
      /\ prefs.filenameFormat = DefaultFormat =>
           NameDateDigits(f.name) = DocDateDigits(f.doc)

\* C6: the command reports 'Note Saved' if and only if writeFile resolved, and
\* 'Failed to save note' if and only if writeFile failed; a failure is never
\* reported for an invocation whose file was written
C6_ReportMatchesWrite ==
  (cmd = "saveNote" /\ pc = "done") =>
    /\ (\E i \in 1..Len(Delivered) : Delivered[i].kind = "Note Saved") <=> writesDone = 1
    /\ "Failed to save note" \in ReportKinds <=> (writeCalls = 1 /\ writesDone = 0)

\* the invocation reached the directory gate, and access() and mkdir() both fail
GateFails ==
  /\ \/ cmd = "saveNote"
     \/ cmd = "form" /\ NonBlank(content)
  /\ ~accessOk(dirAtLaunch)
  /\ ~mkdirOk(dirAtLaunch)

\* C7: if the notes directory fails the access check and the recursive mkdir
\* fails too, the invocation ends with the directory failure and no further
\* step runs: no selection or clipboard read, no file name, no writeFile
C7_DirectoryGate ==
  GateFails =>
    /\ selReads = 0 /\ clipReads = 0
    /\ filename = NoText /\ finalOutput = NoText
    /\ writeCalls = 0
    /\ files = filesAtLaunch /\ dirState = dirAtLaunch
    /\ pc \in {"access", "mkdir", "toastDirectory", "toastFailed", "toastError", "done"}
    /\ pc = "done" =>
         /\ mkdirCalls = 1
         /\ cmd = "saveNote" => reports[1].kind = "Invalid directory"
         /\ cmd = "form" => /\ reports[1].kind = "Failed to save note"
                            /\ reports[1].detail = "directory"

\* C7 witness: the command, given text, stopped at a directory it could
\* neither access nor create, with the one report 'Invalid directory'
C7_Witness ==
  /\ cmd = "saveNote" /\ pc = "done"
  /\ dirAtLaunch = "blocked"
  /\ argument = <<"a">>
  /\ mkdirCalls = 1
  /\ reports = <<[kind |-> "Invalid directory", detail |-> "none", threw |-> FALSE]>>

\* C8: when writeFile is called the target directory exists and is writable:
\* a directory that failed the access check has become writable by then
C8_WritableAtWrite ==
  (writeCalls > 0 /\ ~accessOk(dirAtLaunch)) => dirAtWrite = "writable"

\* content resolution of the command ended in 'no content'
NoContentOutcome ==
  /\ cmd = "saveNote"
  /\ pc = "toastNoContent" \/ "No content to save" \in ReportKinds

\* C9 as stated: when content resolution ends in 'no content' the invocation
\* has not touched the filesystem: no file written, no directory created
C9_NoContentTouchesNothing ==
  NoContentOutcome =>
    /\ writeCalls = 0
    /\ files = filesAtLaunch
    /\ dirState = dirAtLaunch

\* C9 amended: when content resolution ends in 'no content' no file has been
\* written; the only filesystem change the invocation can have made is the
\* creation of a missing notes directory by the directory gate
C9_NoContentWritesNoFile ==
  NoContentOutcome =>
    /\ writeCalls = 0
    /\ files = filesAtLaunch
    /\ mkdirCalls <= 1
    /\ dirState # dirAtLaunch =>
         /\ dirAtLaunch \in {"absent", "absentDeep"}
         /\ dirState = "writable"
         /\ mkdirCalls = 1

\* C9 witness: 'no content' was reported by an invocation that had created
\* the missing notes directory
C9_Witness ==
  /\ cmd = "saveNote" /\ pc = "done"
  /\ reports = <<[kind |-> "No content to save", detail |-> "none", threw |-> FALSE]>>
  /\ dirAtLaunch = "absent" /\ dirState = "writable"
  /\ writeCalls = 0

\* C10: every finished invocation of the command has reported exactly one
\* outcome: saved, no content, directory unavailable, or write failed
C10_ExactlyOneOutcome ==
  (cmd = "saveNote" /\ pc = "done") =>
    /\ Len(Delivered) = 1
    /\ Delivered[1].kind \in
         {"Note Saved", "No content to save", "Invalid directory", "Failed to save note"}
    /\ Delivered[1].kind = "Note Saved" <=> writesDone = 1

\* the report calls that announce a rejection before any write is attempted
EarlyRejections == {"No content to save", "Invalid directory"}

\* C11: one invocation calls mkdir at most once and writeFile at most once;
\* apart from the one file it names and the notes directory it may create,
\* the directory's files and the directory are as they were at launch; an
\* invocation that reported no content or an invalid directory has not
\* called writeFile
C11_AtMostOneMkdirOneWrite ==
  /\ mkdirCalls <= 1
  /\ writeCalls <= 1
  /\ writesDone <= writeCalls
  /\ \A f \in files : f.name # filename => f \in filesAtLaunch
  /\ \A f \in filesAtLaunch : f.name # filename => f \in files
  /\ files # filesAtLaunch => writesDone = 1
  /\ dirState # dirAtLaunch =>
       /\ mkdirCalls = 1
       /\ dirAtLaunch \in {"absent", "absentDeep"}
       /\ dirState = "writable"
  /\ ReportKinds \cap EarlyRejections # {} =>
       /\ writeCalls = 0
       /\ files = filesAtLaunch

\* C11 witness: a finished save that created the missing directory with its
\* one mkdir call and wrote its one file
C11_Witness ==
  /\ cmd = "saveNote" /\ pc = "done"
  /\ dirAtLaunch = "absent"
  /\ mkdirCalls = 1 /\ writeCalls = 1 /\ writesDone = 1
  /\ Cardinality(files) = Cardinality(filesAtLaunch) + 1

\* invocation i reported success: its showHUD call returned
ReportedSaved(i) ==
  \E k \in 1..Len(invocations[i].reports) :
    /\ invocations[i].reports[k].kind = "Note Saved"
    /\ ~invocations[i].reports[k].threw

\* C12: when two invocations computed the same file name and both reported
\* success, exactly one file has that name and its content is the document
\* of the invocation whose writeFile resolved last
C12_LastWriteWins ==
  \A i, j \in Invokers :
    (/\ i # j
     /\ invocations[i].filename = invocations[j].filename
     /\ ReportedSaved(i) /\ ReportedSaved(j)
     /\ completed # <<>> /\ completed[Len(completed)] = j)
    => /\ Cardinality({f \in files : f.name = invocations[j].filename}) = 1
       /\ \A f \in files :
            f.name = invocations[j].filename => f.doc = invocations[j].finalOutput

\* text s holds text part as a contiguous piece
Contains(s, part) ==
  \E k \in 0..(Len(s) - Len(part)) : SubSeq(s, k + 1, k + Len(part)) = part

\* the files of the launch-time directory that the current invocation's
\* write replaced
Replaced == {old \in filesAtLaunch : writesDone = 1 /\ old.name = filename}

DirectlyInside(name) ==
  /\ \A k \in 1..Len(name) : name[k] # "/"
  /\ name # <<>> /\ name # <<".">> /\ name # <<".", ".">>

\* C15: every file written is located directly inside the notes directory
C15_WrittenInsideNotesDirectory ==
  \A f \in files : DirectlyInside(f.name)

\* the number a text of decimal digits writes
RECURSIVE Number(_)
Number(digits) ==
  IF digits = <<>> THEN 0
  ELSE 10 * Number(SubSeq(digits, 1, Len(digits) - 1))
         + (CHOOSE n \in 0..9 : DigitChar[n + 1] = digits[Len(digits)])

\* the timestamp a file name of the form YYYY-MM-DD-HHmm-ss.md spells out
TimestampOf(name) ==
  [year |-> Number(SubSeq(name, 1, 4)),
   month |-> Number(SubSeq(name, 6, 7)) - 1,
   date |-> Number(SubSeq(name, 9, 10)),
   hours |-> Number(SubSeq(name, 12, 13)),
   minutes |-> Number(SubSeq(name, 14, 15)),
   seconds |-> Number(SubSeq(name, 17, 18))]

\* generateFilename returned under the default template
DefaultNameReturned ==
  /\ cmd = "generateFilename" /\ pc = "return"
  /\ prefs.filenameFormat \in {DefaultFormat, Undefined}

\* C14: under the default template the timestamp can be read back from the
\* file name, second included, so two timestamps that differ in any field
\* get different file names
C14_DefaultNameInjective ==
  DefaultNameReturned =>
    /\ Len(filename) = Len(DefaultFormat) + Len(MdExtension)
    /\ TimestampOf(filename) = now
    /\ \A other \in FewDates :
         generateFilename(prefs.filenameFormat, other) = filename => other = now

\* C14 witness: the default template at 2024-03-05 01:07:03 gave
\* 2024-03-05-0107-03.md
C14_Witness ==
  /\ DefaultNameReturned
  /\ now = [year |-> 2024, month |-> 2, date |-> 5, hours |-> 1, minutes |-> 7, seconds |-> 3]
  /\ filename = <<"2", "0", "2", "4", "-", "0", "3", "-", "0", "5", "-",
                  "0", "1", "0", "7", "-", "0", "3", ".", "m", "d">>

\* the letters tokens are made of, and the tokens that start text t
TokenLetters == {FormatKeys[k][1] : k \in 1..Len(FormatKeys)}
TokensAt(t) == {FormatKeys[k] : k \in {j \in 1..Len(FormatKeys) : StartsWith(t, FormatKeys[j])}}

\* template t read from the left, each maximal token occurrence taken whole
\* and given its own value, every other character kept
RECURSIVE TokenByToken(_, _)
TokenByToken(t, date) ==
  IF t = <<>> THEN <<>>
  ELSE IF TokensAt(t) = {} THEN <<Head(t)>> \o TokenByToken(Tail(t), date)
  ELSE LET token == CHOOSE k \in TokensAt(t) : \A other \in TokensAt(t) : Len(other) <= Len(k)
       IN formatMap(date, token) \o TokenByToken(SubSeq(t, Len(token) + 1, Len(t)), date)

\* generateFilename returned for a template of token letters and separators
TokenTemplateReturned ==
  /\ cmd = "generateFilename" /\ pc = "return"
  /\ Truthy(prefs.filenameFormat)
  /\ \A k \in 1..Len(prefs.filenameFormat) :
       prefs.filenameFormat[k] \in TokenLetters \cup {"-"}

\* C16: for a template built from tokens and separators the file name is the
\* template with each maximal token occurrence replaced by that token's own
\* value: no shorter token has consumed part of a longer one
C16_LongestTokenFirst ==
  TokenTemplateReturned =>
    filename = TokenByToken(prefs.filenameFormat, now) \o MdExtension

\* C16 witness: YYYYMMDD at 2024-03-05 gave 20240305.md
C16_Witness ==
  /\ TokenTemplateReturned
  /\ prefs.filenameFormat = CompactDateFormat
  /\ now.year = 2024 /\ now.month = 2 /\ now.date = 5
  /\ filename = <<"2", "0", "2", "4", "0", "3", "0", "5", ".", "m", "d">>

\* hour H of the day on the 12-hour clock: 12, 1, ..., 11, 12, 1, ..., 11
TwelveHour(H) == ((H + 11) % 12) + 1
TwoDigits(n) == IF n < 10 THEN <<"0">> \o Str(n) ELSE Str(n)
Meridiem(H) == IF H >= 12 THEN <<"P", "M">> ELSE <<"A", "M">>
LowerMeridiem(H) == IF H >= 12 THEN <<"p", "m">> ELSE <<"a", "m">>

\* generateFilename returned for the template format
Returned(format) ==
  cmd = "generateFilename" /\ pc = "return" /\ prefs.filenameFormat = format

\* C17: at hour H token h gives H mod 12, or 12 when that is 0, token hh the
\* same in two digits, A and a give PM and pm from noon on and AM and am
\* before; the name made from hA is made at no other hour of the day
C17_TwelveHourClock ==
  /\ TwelveHour(now.hours) \in 1..12
  /\ Returned(<<"h">>) => filename = Str(TwelveHour(now.hours)) \o MdExtension
  /\ Returned(<<"h", "h">>) => filename = TwoDigits(TwelveHour(now.hours)) \o MdExtension
  /\ Returned(<<"A">>) => filename = Meridiem(now.hours) \o MdExtension
  /\ Returned(<<"a">>) => filename = LowerMeridiem(now.hours) \o MdExtension
  /\ Returned(<<"h", "A">>) =>
       /\ filename = Str(TwelveHour(now.hours)) \o Meridiem(now.hours) \o MdExtension
       /\ \A H \in 0..23 :
            generateFilename(<<"h", "A">>, [now EXCEPT !.hours = H]) = filename
              => H = now.hours

\* C17 witness: template hA at midnight gave 12AM.md
C17_Witness ==
  /\ Returned(<<"h", "A">>)
  /\ now.hours = 0
  /\ filename = <<"1", "2", "A", "M", ".", "m", "d">>

\* C18: a file name format with an invalid token gives the file name of the
\* default format
C18_InvalidFormatFallsBack ==
  (/\ cmd = "generateFilename" /\ pc = "return"
   /\ prefs.filenameFormat \in InvalidFormats)
  => filename = generateFilename(DefaultFormat, now)

\* the six field toggles in the order of the fields, and those that are on
FieldToggles ==
  << <<"date", prefs.frontmatterIncludeDate>>, <<"type", prefs.frontmatterIncludeType>>,
     <<"title", prefs.frontmatterIncludeTitle>>, <<"tags", prefs.frontmatterIncludeTags>>,
     <<"author", prefs.frontmatterIncludeAuthor>>, <<"source", prefs.frontmatterIncludeSource>> >>
EnabledFields == SelectSeq(FieldToggles, LAMBDA f : f[2])

\* formatContent returned
DocumentReturned == cmd = "formatContent" /\ pc = "return"

\* C19: with frontmatter disabled, or enabled with all six toggles off, the
\* document is the content exactly, whatever the default tags and author
C19_NoFieldsNoBlock ==
  (DocumentReturned /\ (~prefs.enableFrontmatter \/ EnabledFields = <<>>))
    => finalOutput = content

\* C19 witness: frontmatter enabled, every toggle off, default tags and
\* author set, and the document returned is the content
C19_Witness ==
  /\ DocumentReturned
  /\ prefs.enableFrontmatter /\ EnabledFields = <<>>
  /\ prefs.frontmatterDefaultTags = <<"a", ",", " ", "b">>
  /\ prefs.frontmatterDefaultAuthor = <<"m", "e">>
  /\ finalOutput = content

\* the key a frontmatter line starts with
FieldKey(name) ==
  CASE name = "date" -> <<"d", "a", "t", "e">>
    [] name = "type" -> <<"t", "y", "p", "e">>
    [] name = "title" -> <<"t", "i", "t", "l", "e">>
    [] name = "tags" -> <<"t", "a", "g", "s">>
    [] name = "author" -> <<"a", "u", "t", "h", "o", "r">>
    [] name = "source" -> <<"s", "o", "u", "r", "c", "e">>

\* C20: with frontmatter enabled and a toggle on, the document's lines are
\* '---', one line per enabled field in the order date, type, title, tags,
\* author, source, '---', an empty line, and then the content as it is
C20_BlockLayout ==
  (DocumentReturned /\ prefs.enableFrontmatter /\ EnabledFields # <<>>) =>
    LET lines == Split(finalOutput, "\n")
        n == Len(EnabledFields)
    IN /\ Len(lines) >= n + 4
       /\ lines[1] = Delimiter
       /\ \A k \in 1..n :
            StartsWith(lines[k + 1], FieldKey(EnabledFields[k][1]) \o <<":", " ">>)
       /\ prefs.frontmatterIncludeType =>
            \E k \in 1..n : lines[k + 1] = <<"t", "y", "p", "e", ":", " ", "q", "u", "i", "c", "k", "-", "n", "o", "t", "e">>
       /\ lines[n + 2] = Delimiter
       /\ lines[n + 3] = <<>>
       /\ Join(SubSeq(lines, n + 4, Len(lines)), Newline) = content

\* C20 witness: only type enabled and content 'Hello world' gave the lines
\* '---', 'type: quick-note', '---', '', 'Hello world'
C20_Witness ==
  /\ DocumentReturned
  /\ prefs.enableFrontmatter
  /\ EnabledFields = << <<"type", TRUE>> >>
  /\ content = <<"H", "e", "l", "l", "o", " ", "w", "o", "r", "l", "d">>
  /\ finalOutput = <<"-", "-", "-", "\n", "t", "y", "p", "e", ":", " ", "q", "u", "i", "c", "k", "-", "n", "o", "t", "e", "\n", "-", "-", "-", "\n",
                   "\n", "H", "e", "l", "l", "o", " ", "w", "o", "r", "l", "d">>

\* the line of the returned document that holds field name
FieldLine(name) ==
  LET k == CHOOSE j \in 1..Len(EnabledFields) : EnabledFields[j][1] = name
  IN Split(finalOutput, "\n")[k + 1]

\* text up to its first newline; text without the whitespace around it
FirstLineOf(text) ==
  IF \A k \in 1..Len(text) : text[k] # "\n" THEN text
  ELSE SubSeq(text, 1, (CHOOSE k \in 1..Len(text) :
                          text[k] = "\n" /\ \A j \in 1..(k - 1) : text[j] # "\n") - 1)
Surrounded(text) ==
  LET inked == {k \in 1..Len(text) : ~IsWhitespace(text[k])}
  IN IF inked = {} THEN <<>>
     ELSE SubSeq(text, CHOOSE k \in inked : \A j \in inked : k <= j,
                       CHOOSE k \in inked : \A j \in inked : k >= j)

\* line without a leading run of '#' and the whitespace that follows the run
WithoutHeading(line) ==
  LET hashes == CHOOSE n \in 0..Len(line) :
                  /\ \A j \in 1..n : line[j] = "#"
                  /\ n = Len(line) \/ line[n + 1] # "#"
      blanks == CHOOSE n \in hashes..Len(line) :
                  /\ \A j \in (hashes + 1)..n : IsWhitespace(line[j])
                  /\ n = Len(line) \/ ~IsWhitespace(line[n + 1])
  IN IF hashes = 0 THEN line ELSE SubSeq(line, blanks + 1, Len(line))

AtMost(text, n) == SubSeq(text, 1, IF Len(text) < n THEN Len(text) ELSE n)
Quoted(text) == <<"\"">> \o text \o <<"\"">>
TitleKey == <<"t", "i", "t", "l", "e", ":", " ">>

\* formatContent returned a document with a title line
TitleReturned ==
  DocumentReturned /\ prefs.enableFrontmatter /\ prefs.frontmatterIncludeTitle

\* C21: the title is the first line of the content without its leading '#'
\* markers and the whitespace after them, cut to 100 characters, in double
\* quotes
C21_TitleFromFirstLine ==
  TitleReturned =>
    FieldLine("title")
      = TitleKey \o Quoted(AtMost(WithoutHeading(FirstLineOf(content)), 100))

\* C21 as the code has it: the first line is trimmed of the whitespace around
\* it before the markers are removed; the title has at most 100 characters
C21_TitleFromTrimmedFirstLine ==
  TitleReturned =>
    /\ FieldLine("title")
         = TitleKey \o Quoted(AtMost(WithoutHeading(Surrounded(FirstLineOf(content))), 100))
    /\ Len(FieldLine("title")) <= Len(TitleKey) + 100 + 2

\* C21 witness: '# Meeting Notes' and a body gave the title "Meeting Notes"
C21_Witness ==
  /\ TitleReturned
  /\ content = MeetingNotes
  /\ FieldLine("title") = TitleKey \o Quoted(<<"M", "e", "e", "t", "i", "n", "g", " ", "N", "o", "t", "e", "s">>)

\* the pieces of text between its commas, in order
RECURSIVE PiecesOf(_)
PiecesOf(text) ==
  LET commas == {k \in 1..Len(text) : text[k] = ","}
  IN IF commas = {} THEN <<text>>
     ELSE LET last == CHOOSE k \in commas : \A j \in commas : j <= k
          IN PiecesOf(SubSeq(text, 1, last - 1)) \o <<SubSeq(text, last + 1, Len(text))>>

\* the tags the default tags preference spells: its pieces without the
\* whitespace around them, the empty ones left out
ExpectedTags ==
  IF ~IsText(prefs.frontmatterDefaultTags) THEN <<>>
  ELSE LET pieces == PiecesOf(prefs.frontmatterDefaultTags)
       IN SelectSeq([k \in 1..Len(pieces) |-> Surrounded(pieces[k])], LAMBDA t : t # <<>>)

\* tags written as a bracketed list
RECURSIVE Listed(_)
Listed(tags) ==
  IF tags = <<>> THEN <<>>
  ELSE IF Len(tags) = 1 THEN tags[1]
  ELSE Listed(SubSeq(tags, 1, Len(tags) - 1)) \o <<",", " ">> \o tags[Len(tags)]
TagsKey == <<"t", "a", "g", "s", ":", " ">>

\* formatContent returned a document with a tags line
TagsReturned ==
  DocumentReturned /\ prefs.enableFrontmatter /\ prefs.frontmatterIncludeTags

\* C22: the tags line lists, in brackets and in order, the pieces of the
\* default tags between commas, trimmed, the empty ones dropped; with no piece
\* left the line is 'tags: []'; no listed tag is empty or has whitespace at
\* either end
C22_TagsLine ==
  TagsReturned =>
    /\ FieldLine("tags") = TagsKey \o <<"[">> \o Listed(ExpectedTags) \o <<"]">>
    /\ ExpectedTags = <<>> => FieldLine("tags") = TagsKey \o <<"[", "]">>
    /\ \A k \in 1..Len(ExpectedTags) :
         /\ ExpectedTags[k] # <<>>
         /\ ~IsWhitespace(ExpectedTags[k][1])
         /\ ~IsWhitespace(ExpectedTags[k][Len(ExpectedTags[k])])

\* C22 witness: default tags '  meeting, , product ' gave the line
\* 'tags: [meeting, product]'
C22_Witness ==
  /\ TagsReturned
  /\ prefs.frontmatterDefaultTags = MeetingTags
  /\ FieldLine("tags") = <<"t", "a", "g", "s", ":", " ", "[", "m", "e", "e", "t", "i", "n", "g", ",", " ">>
                         \o <<"p", "r", "o", "d", "u", "c", "t", "]">>

\* the current Save Note invocation has made the read, and the read threw
SelectionThrew == cmd = "saveNote" /\ selReads = 1 /\ selection = Throws
ClipboardThrew == cmd = "saveNote" /\ clipReads = 1 /\ clipboard = Throws

\* C23: a selection read that threw is followed by the clipboard read, a
\* clipboard read that threw by the no-content check; neither is reported,
\* and when nothing was written the one thing the user is told is 'No content
\* to save'
C23_ReadFailuresAbsorbed ==
  /\ SelectionThrew => clipReads = 1 \/ pc = "clipboard"
  /\ ClipboardThrew => pc = "toastNoContent" \/ "No content to save" \in ReportKinds
  /\ (SelectionThrew \/ ClipboardThrew) =>
       /\ \A k \in 1..Len(reports) :
            reports[k].kind \in {"Failed to save note", "Error"}
              => reports[k].detail \notin {"selection", "clipboard"}
       /\ (reports # <<>> /\ writeCalls = 0) => reports[1].kind = "No content to save"
       /\ (NonBlank(clipboard) /\ clipReads = 1) => noteContent = clipboard

\* C23 witness: both reads threw, and the command finished having reported
\* 'No content to save' and nothing else
C23_Witness ==
  /\ SelectionThrew /\ ClipboardThrew
  /\ pc = "done"
  /\ reports = <<[kind |-> "No content to save", detail |-> "none", threw |-> FALSE]>>
  /\ ~rejected

\* the current invocation found neither the notes directory nor its parent
\* and has called mkdir
CreatedDeep ==
  cmd \in {"saveNote", "form"} /\ dirAtLaunch = "absentDeep" /\ mkdirCalls = 1

\* the current invocation was rejected with the directory error
DirectoryError ==
  \/ "Invalid directory" \in ReportKinds
  \/ \E k \in 1..Len(reports) : reports[k].detail = "directory"

GatePassed ==
  accessOk(dirAtLaunch) \/ (mkdirCalls = 1 /\ mkdirOk(dirAtLaunch))

\* C25: in a Save Note invocation the selection is read only once the
\* directory gate has passed, the clipboard only once the selection read is
\* over and gave no content, and writeFile is called only once the gate has
\* passed and content resolution and formatting have given a non-blank
\* content, a file name and a document
C25_StepOrder ==
  [][(cmd = "saveNote" /\ cmd' = "saveNote") =>
       /\ selReads' > selReads =>
            GatePassed /\ selReads = 0 /\ clipReads = 0 /\ writeCalls = 0
       /\ clipReads' > clipReads =>
            /\ GatePassed /\ selReads = 1 /\ clipReads = 0 /\ writeCalls = 0
            /\ selection = Throws \/ ~NonBlank(selection)
       /\ writeCalls' > writeCalls =>
            /\ GatePassed /\ writeCalls = 0
            /\ NonBlank(noteContent)
            /\ filename # NoText /\ finalOutput # NoText]_vars

\* C25 witness: an invocation that created the directory, read the selection,
\* then the clipboard, and then wrote the note
C25_Witness ==
  /\ cmd = "saveNote" /\ pc = "done"
  /\ mkdirCalls = 1 /\ selReads = 1 /\ clipReads = 1 /\ writesDone = 1

\* C26: the hook's actions return what resolveContent gives, and for the
\* same argument, selection and clipboard the Save Note command ends its
\* content resolution with that same content, or without content when
\* resolveContent gives none
C26_ResolversAgree ==
  /\ (cmd = "hook" /\ pc = "done") =>
       resolved = resolveContent(argument, selection, clipboard)
  /\ (cmd = "saveNote" /\ pc = "write") =>
       noteContent = resolveContent(argument, selection, clipboard)
  /\ (cmd = "saveNote" /\ pc = "toastNoContent") =>
       resolveContent(argument, selection, clipboard) = Null

\* how often character c stands in text, and part in text
CountOf(text, chars) == Cardinality({k \in 1..Len(text) : text[k] \in chars})
Occurrences(text, part) ==
  Cardinality({k \in 0..(Len(text) - Len(part)) : SubSeq(text, k + 1, k + Len(part)) = part})

\* the returned file name without its extension
Stem == SubSeq(filename, 1, Len(filename) - Len(MdExtension))

\* C27: for a template of token letters and separators, each A of the
\* template is AM or PM in the file name and each a is am or pm, whole, and
\* the name holds no other A, P, M, a, p or m: no later pass rewrote them
C27_MeridiemSurvives ==
  TokenTemplateReturned =>
    /\ Occurrences(Stem, Meridiem(now.hours)) = CountOf(prefs.filenameFormat, {"A"})
    /\ Occurrences(Stem, LowerMeridiem(now.hours)) = CountOf(prefs.filenameFormat, {"a"})
    /\ CountOf(Stem, {"A", "P", "M", "a", "p", "m"})
         = 2 * CountOf(prefs.filenameFormat, {"A", "a"})

\* C27 witness: YYYY-MM-DD-hh-mm-A at 14:30:00 on 2024-03-05 gave
\* 2024-03-05-02-30-PM.md
C27_Witness ==
  /\ TokenTemplateReturned
  /\ prefs.filenameFormat = MeridiemFormat
  /\ now = [year |-> 2024, month |-> 2, date |-> 5, hours |-> 14, minutes |-> 30, seconds |-> 0]
  /\ filename = <<"2", "0", "2", "4", "-", "0", "3", "-", "0", "5", "-">>
                  \o <<"0", "2", "-", "3", "0", "-", "P", "M", ".", "m", "d">>

\* handleSubmit was called with content that is empty or only whitespace
BlankSubmitted == cmd = "form" /\ ~hasContent(content)

\* C29: a submission of empty or whitespace-only content shows the "No
\* content to save" toast and nothing else, never enters saveNoteContent (no
\* access, no mkdir, no writeFile: the directory and the files stay as they
\* were) and leaves isSubmitting false
C29_BlankSubmitRejected ==
  BlankSubmitted =>
    /\ pc \in {"toastNoContent", "done"}
    /\ ~isSubmitting
    /\ mkdirCalls = 0
    /\ writeCalls = 0
    /\ dirState = dirAtLaunch
    /\ files = filesAtLaunch
    /\ pc = "done" => /\ Len(reports) = 1
                      /\ reports[1].kind = "No content to save"

\* C29 witness: whitespace-only content was submitted and the toast shown
C29_Witness ==
  /\ BlankSubmitted
  /\ content = <<" ", "\n">>
  /\ pc = "done"
  /\ Delivered = <<[kind |-> "No content to save", detail |-> "none", threw |-> FALSE]>>
  /\ ~isSubmitting

\* the handleSubmit calls of the form whose saveNoteContent has not returned
SavesInFlight == {i \in Submits : form.handleSubmit[i].pc = "saveNoteContent"}

\* C28: at most one saveNoteContent call of a form is in flight at any time
C28_OneSaveInFlight == Cardinality(SavesInFlight) <= 1

\* C30: once a user action has set the content of the Detail form, no step
\* of the mount-time resolution changes it
C30_UserContentKept ==
  [][(form.setBy = "user" /\ form'.content # form.content) => form'.setBy = "user"]_form

====
